---- MODULE Spec2Model ----
(***************************************************************************)
(* Model of the data-reconciliation layer of kiali-qe-python:              *)
(*   kiali_qe/rest/kiali_api.py   (KialiExtendedClient)                    *)
(*   kiali_qe/components/enums.py (StringEnum members)                     *)
(*   kiali_qe/entities/overview.py (Overview.is_equal)                     *)
(*                                                                         *)
(* Python strings that are sliced, concatenated or searched are sequences  *)
(* of one-character strings; strings that are only compared are TLA+       *)
(* strings.  A raised Python exception is the record Raise(<class name>).  *)
(***************************************************************************)
EXTENDS Integers, Sequences, FiniteSets, TLC

VARIABLES
    health_data,      \* validation document the backend serves (get_validation)
    validation,       \* value returned by get_istio_config_validation
    workload_data,    \* 'workloadDetails' document the backend serves
    workload_listing, \* 'workloadList' document of the namespace
    workload,         \* value returned by workload_details
    config_data,      \* the Istio objects the backend holds
    filters,          \* argument of istio_config_list
    config_list,      \* value returned by istio_config_list
    os_namespaces,    \* argument namespaces of the cluster client's istio_config_list
    os_config_names,  \* argument config_names of the cluster client's istio_config_list
    os_config_list,   \* value returned by the cluster client's istio_config_list
    ov_self,          \* Overview a
    ov_other,         \* object b compared with a
    ov_equal,         \* values returned by a.is_equal(b, True / False)
    listings,         \* per namespace, the section of the list document
    healths,          \* per item name, the health document the backend serves
    fail_at,          \* which upstream call of the query fails (0: none)
    ns_scope,         \* argument namespaces of a list query
    name_filter,      \* argument service_names / application_names / workload_names
    list_result,      \* value returned by (or raised from) the list query
    ov_locals,        \* locals of overview_list when it builds an Overview
    detail_data,      \* the detail document the backend serves
    details,          \* value returned by (or raised from) a details query
    runner,           \* per p_group, the tests finished and the test in progress
    istio_objects,    \* the Istio objects the cluster holds
    crud,             \* the CRUD test that runs, its steps so far and its outcome
    backend_now,      \* what the backend serves now, to a query in progress
    race,             \* the query in progress: its position and its locals
    os_workloads,     \* the workloads the cluster client's workload_list returns
    os_applications,  \* value returned by the cluster client's application_list
    calls,            \* upstream calls the query has issued, in order
    query             \* the query that was invoked ("" before the call)

vars == <<health_data, validation, workload_data, workload_listing, workload,
          config_data, filters, config_list,
          os_namespaces, os_config_names, os_config_list,
          ov_self, ov_other, ov_equal,
          listings, healths, fail_at, ns_scope, name_filter, list_result,
          ov_locals, detail_data, details,
          runner, istio_objects, crud, backend_now, race, os_workloads, os_applications,
          calls, query>>

validationVars == <<health_data, validation>>
workloadVars == <<workload_data, workload_listing, workload>>
configVars == <<config_data, filters, config_list,
                os_namespaces, os_config_names, os_config_list>>
overviewVars == <<ov_self, ov_other, ov_equal>>
listVars == <<listings, healths, fail_at, ns_scope, name_filter, list_result, ov_locals>>
detailVars == <<detail_data, details>>
crudVars == <<runner, istio_objects, crud>>
raceVars == <<backend_now, race>>
appVars == <<os_workloads, os_applications>>

-----------------------------------------------------------------------------
(* Bounds *)

MaxChecks == 3
MaxPods == 5
MaxCount == 1

-----------------------------------------------------------------------------
(* Python values *)

NoneVal == [type |-> "NoneType"]
EmptyDict == [type |-> "dict"]
Unset == [type |-> "unset"]
Raise(cls) == [type |-> "raise", class |-> "raise", error |-> cls]

\* truth value of a JSON document: None and {} are falsy
Truthy(d) == d.type # "NoneType" /\ DOMAIN d # {"type"}

Max(a, b) == IF a > b THEN a ELSE b

Digits == <<"0", "1", "2", "3", "4", "5", "6", "7", "8", "9">>

\* '{}'.format(n) for a non-negative int
RECURSIVE IntToStr(_)
IntToStr(n) ==
    IF n < 10 THEN <<Digits[n + 1]>>
    ELSE IntToStr(n \div 10) \o <<Digits[(n % 10) + 1]>>

\* s[:-k]
DropLast(s, k) == SubSeq(s, 1, Max(0, Len(s) - k))

\* sub in s, for Python strings
Contains(s, sub) ==
    \E i \in 0..(Len(s) - Len(sub)) : SubSeq(s, i + 1, i + Len(sub)) = sub

-----------------------------------------------------------------------------
(* enums.py *)

IstioConfigValidation ==
    [NA |-> "N/A", VALID |-> "Valid", WARNING |-> "Warning", NOT_VALID |-> "Not Valid"]

HealthType ==
    [NA |-> "N/A", HEALTHY |-> "Healthy", FAILURE |-> "Failure", DEGRADED |-> "Degraded"]

OverviewPageType == [APPS |-> "Apps", SERVICES |-> "Services", WORKLOADS |-> "Workloads"]

IstioConfigPageFilter ==
    [ISTIO_TYPE |-> <<"I", "s", "t", "i", "o", " ", "T", "y", "p", "e">>,
     ISTIO_NAME |-> <<"I", "s", "t", "i", "o", " ", "N", "a", "m", "e">>,
     CONFIG |-> <<"C", "o", "n", "f", "i", "g">>]

IstioConfigObjectType ==
    [DESTINATION_RULE |-> <<"D", "e", "s", "t", "i", "n", "a", "t", "i", "o", "n", "R", "u", "l", "e">>,
     RULE |-> <<"R", "u", "l", "e">>,
     ADAPTER |-> <<"A", "d", "a", "p", "t", "e", "r">>,
     TEMPLATE |-> <<"T", "e", "m", "p", "l", "a", "t", "e">>,
     VIRTUAL_SERVICE |-> <<"V", "i", "r", "t", "u", "a", "l", "S", "e", "r", "v", "i", "c", "e">>,
     GATEWAY |-> <<"G", "a", "t", "e", "w", "a", "y">>,
     SERVICE_ENTRY |-> <<"S", "e", "r", "v", "i", "c", "e", "E", "n", "t", "r", "y">>,
     QUOTA_SPEC |-> <<"Q", "u", "o", "t", "a", "S", "p", "e", "c">>,
     QUOTA_SPEC_BINDING |-> <<"Q", "u", "o", "t", "a", "S", "p", "e", "c", "B", "i", "n", "d", "i", "n", "g">>,
     POLICY |-> <<"P", "o", "l", "i", "c", "y">>,
     MESH_POLICY |-> <<"M", "e", "s", "h", "P", "o", "l", "i", "c", "y">>,
     CLUSTER_RBAC_CONFIG |-> <<"C", "l", "u", "s", "t", "e", "r", "R", "b", "a", "c", "C", "o", "n", "f", "i", "g">>,
     RBAC_CONFIG |-> <<"R", "b", "a", "c", "C", "o", "n", "f", "i", "g">>,
     SERVICE_ROLE |-> <<"S", "e", "r", "v", "i", "c", "e", "R", "o", "l", "e">>,
     SERVICE_ROLE_BINDING |-> <<"S", "e", "r", "v", "i", "c", "e", "R", "o", "l", "e", "B", "i", "n", "d", "i", "n", "g">>]

-----------------------------------------------------------------------------
(* get_istio_config_validation *)

Severities == {"error", "warning"}
Messages == {"KIA0301", "KIA0201"}
Checks == [severity : Severities, message : Messages]

SeqsUpTo(S, n) == UNION {[1..k -> S] : k \in 0..n}

ValidationDocs ==
    {NoneVal, EmptyDict}
    \cup {[type |-> "dict", checks |-> cs] : cs \in SeqsUpTo(Checks, MaxChecks)}

\* NOT_VALID only when every check is an error
get_istio_config_validation_all_errors(doc) ==
    IF Truthy(doc)
    THEN IF Len(doc.checks) > 0
         THEN IF \A i \in 1..Len(doc.checks) : doc.checks[i].severity = "error"
              THEN IstioConfigValidation.NOT_VALID
              ELSE IstioConfigValidation.WARNING
         ELSE IstioConfigValidation.VALID
    ELSE IstioConfigValidation.NA

\* len(checks) > 1 instead of > 0
get_istio_config_validation_off_by_one(doc) ==
    IF Truthy(doc)
    THEN IF Len(doc.checks) > 1
         THEN IF "error" \in {doc.checks[i].severity : i \in 1..Len(doc.checks)}
              THEN IstioConfigValidation.NOT_VALID
              ELSE IstioConfigValidation.WARNING
         ELSE IstioConfigValidation.VALID
    ELSE IstioConfigValidation.NA

\* an empty checks array falls through to NA
get_istio_config_validation_empty_na(doc) ==
    IF Truthy(doc) /\ Len(doc.checks) > 0
    THEN IF "error" \in {doc.checks[i].severity : i \in 1..Len(doc.checks)}
         THEN IstioConfigValidation.NOT_VALID
         ELSE IstioConfigValidation.WARNING
    ELSE IstioConfigValidation.NA

get_istio_config_validation(doc) ==
    IF Truthy(doc)
    THEN IF Len(doc.checks) > 0
         THEN IF "error" \in {doc.checks[i].severity : i \in 1..Len(doc.checks)}
              THEN IstioConfigValidation.NOT_VALID
              ELSE IstioConfigValidation.WARNING
         ELSE IstioConfigValidation.VALID
    ELSE IstioConfigValidation.NA

GetIstioConfigValidation ==
    /\ validation = "unset"
    /\ validation' = get_istio_config_validation(health_data)
    /\ UNCHANGED <<health_data, workloadVars, configVars, overviewVars, listVars, detailVars, calls, query,
                   crudVars, raceVars, appVars>>

-----------------------------------------------------------------------------
(* workload_details *)

Owners == {[name |-> <<"r", "1">>, kind |-> <<"R", "S">>],
           [name |-> <<"r", "2">>, kind |-> <<"R", "S">>]}

\* a pod with the sidecar injected and labelled, and one without
PodVariants == {"meshed", "plain"}

WorkloadName == <<"r", "1">>

\* pod names end in a generated suffix of five characters
PodName(owner, i) ==
    owner.name \o <<"-", "a", "b", "c", "d">> \o <<Digits[(i % 10) + 1]>>

\* the i-th pod of the 'pods' array of the workloadDetails document
PodData(owner, variant, i) ==
    [name |-> PodName(owner, i),
     createdAt |-> <<10, i, 30>>,
     createdBy |-> <<owner>>,
     istioContainers |->
         IF variant = "meshed" THEN <<[image |-> "proxyv2"]>> ELSE <<>>,
     istioInitContainers |->
         IF variant = "meshed" THEN <<[image |-> "proxy_init"]>> ELSE <<>>,
     labels |-> IF variant = "meshed" THEN {<<"app", "reviews">>} ELSE {},
     appLabel |-> variant = "meshed",
     versionLabel |-> variant = "meshed",
     status |-> IF variant = "meshed" THEN "Running" ELSE "Pending"]

PodLists ==
    UNION {{[i \in 1..n |-> PodData(f[i][1], f[i][2], i)] :
               f \in [1..n -> Owners \X PodVariants]} : n \in 0..MaxPods}

WorkloadDocs ==
    {NoneVal, EmptyDict}
    \cup {[type |-> "dict", name |-> WorkloadName, istioSidecar |-> sc, pods |-> ps,
           destinationServices |-> <<[name |-> "ratings", namespace |-> "bookinfo"]>>]
          : sc \in BOOLEAN, ps \in PodLists}

\* 'workloads' arrays of the workloadList document
WorkloadListings ==
    {<<>>,
     <<[name |-> <<"r", "1">>, istioSidecar |-> TRUE]>>,
     <<[name |-> <<"r", "1">>, istioSidecar |-> TRUE],
       [name |-> <<"r", "1", "0">>, istioSidecar |-> FALSE]>>}

\* the time of day without its seconds
from_rest_to_ui(date) == IntToStr(date[1]) \o <<":">> \o IntToStr(date[2])

get_labels(object_rest) ==
    IF "labels" \in DOMAIN object_rest THEN object_rest.labels ELSE {}

get_pod_status(istioSidecar, pod_data) ==
    IF ~istioSidecar \/ ~pod_data.versionLabel \/ ~pod_data.appLabel
    THEN IstioConfigValidation.WARNING
    ELSE IstioConfigValidation.VALID

\* the WorkloadPod built from one entry of the 'pods' array
WorkloadPod(istioSidecar, pod_data) ==
    [name |-> pod_data.name,
     created_at |-> from_rest_to_ui(pod_data.createdAt),
     created_by |-> pod_data.createdBy[1].name \o <<" ", "(">>
                    \o pod_data.createdBy[1].kind \o <<")">>,
     labels |-> get_labels(pod_data),
     istio_init_containers |->
         IF pod_data.istioInitContainers # <<>>
         THEN pod_data.istioInitContainers[1].image ELSE "",
     istio_containers |->
         IF pod_data.istioContainers # <<>>
         THEN pod_data.istioContainers[1].image ELSE "",
     status |-> get_pod_status(istioSidecar, pod_data),
     phase |-> pod_data.status]

all_pods(data) ==
    [i \in 1..Len(data.pods) |-> WorkloadPod(data.istioSidecar, data.pods[i])]

\* length of the longest prefix of s whose elements have created_by = k
RECURSIVE RunLength(_, _)
RunLength(s, k) ==
    IF s = <<>> \/ s[1].created_by # k THEN 0
    ELSE 1 + RunLength(Tail(s), k)

SelectSeqBy(s, k) == SelectSeq(s, LAMBDA p : p.created_by = k)

\* groups every pod of a creator together, adjacent or not
RECURSIVE groupby_merging(_)
groupby_merging(s) ==
    IF s = <<>> THEN <<>>
    ELSE LET k == s[1].created_by
         IN  <<[key |-> k, group |-> SelectSeqBy(s, k)]>>
             \o groupby_merging(SelectSeq(s, LAMBDA p : p.created_by # k))

\* leaves the pod that ends a group out of it
RECURSIVE groupby_dropping(_)
groupby_dropping(s) ==
    IF s = <<>> THEN <<>>
    ELSE LET k == s[1].created_by
             n == RunLength(s, k)
         IN  <<[key |-> k, group |-> SubSeq(s, 1, Max(1, n - 1))]>>
             \o groupby_dropping(SubSeq(s, n + 1, Len(s)))

\* itertools.groupby(_all_pods, key=get_created_by)
RECURSIVE groupby(_)
groupby(s) ==
    IF s = <<>> THEN <<>>
    ELSE LET k == s[1].created_by
             n == RunLength(s, k)
         IN  <<[key |-> k, group |-> SubSeq(s, 1, n)]>>
             \o groupby(SubSeq(s, n + 1, Len(s)))

ReplicasSuffix == <<" ", "r", "e", "p", "l", "i", "c", "a", "s", ")">>
ReplicaSuffix == <<" ", "(", "1", " ", "r", "e", "p", "l", "i", "c", "a", ")">>
Ellipsis == <<".", ".", ".", " ", "(">>
AndWord == <<" ", "a", "n", "d", " ">>

\* the row of one group, taking every field from the variable _pod
grouped_pod_stale(pod, created_by, workload_pods) ==
    IF Len(workload_pods) > 1
    THEN [name |-> DropLast(pod.name, 5) \o Ellipsis
                   \o IntToStr(Len(workload_pods)) \o ReplicasSuffix,
          created_at |-> pod.created_at \o AndWord
                         \o workload_pods[Len(workload_pods)].created_at,
          created_by |-> created_by,
          labels |-> workload_pods[1].labels,
          istio_init_containers |-> workload_pods[1].istio_init_containers,
          istio_containers |-> workload_pods[1].istio_containers,
          status |-> workload_pods[1].status,
          phase |-> workload_pods[1].phase]
    ELSE [name |-> pod.name \o ReplicaSuffix,
          created_at |-> pod.created_at,
          created_by |-> created_by,
          labels |-> pod.labels,
          istio_init_containers |-> pod.istio_init_containers,
          istio_containers |-> pod.istio_containers,
          status |-> pod.status,
          phase |-> pod.phase]

\* the row of one group; pod is the value of the variable _pod on entry
grouped_pod(pod, created_by, workload_pods) ==
    IF Len(workload_pods) > 1
    THEN [name |-> DropLast(pod.name, 5) \o Ellipsis
                   \o IntToStr(Len(workload_pods)) \o ReplicasSuffix,
          created_at |-> pod.created_at \o AndWord
                         \o workload_pods[Len(workload_pods)].created_at,
          created_by |-> created_by,
          labels |-> workload_pods[1].labels,
          istio_init_containers |-> workload_pods[1].istio_init_containers,
          istio_containers |-> workload_pods[1].istio_containers,
          status |-> workload_pods[1].status,
          phase |-> workload_pods[1].phase]
    ELSE [name |-> workload_pods[1].name \o ReplicaSuffix,
          created_at |-> workload_pods[1].created_at,
          created_by |-> created_by,
          labels |-> workload_pods[1].labels,
          istio_init_containers |-> workload_pods[1].istio_init_containers,
          istio_containers |-> workload_pods[1].istio_containers,
          status |-> workload_pods[1].status,
          phase |-> workload_pods[1].phase]

\* the loop over the groups: _pod is rebound to every row it appends
RECURSIVE grouped_pods(_, _, _)
grouped_pods(groups, pod, pods) ==
    IF groups = <<>> THEN pods
    ELSE LET row == grouped_pod(pod, groups[1].key, groups[1].group)
         IN  grouped_pods(Tail(groups), row, Append(pods, row))

\* _pods of workload_details; _pod enters the loop as the last pod built
pod_rows(data) ==
    LET ap == all_pods(data)
    IN  IF ap = <<>> THEN <<>>
        ELSE grouped_pods(groupby(ap), ap[Len(ap)], <<>>)

\* workload_list(namespaces=[namespace], workload_names=[workload_name])
workload_list_named(listing, workload_name) ==
    {[name |-> listing[i].name, istio_sidecar |-> listing[i].istioSidecar] :
        i \in {j \in 1..Len(listing) : Contains(listing[j].name, workload_name)}}

WorkloadDetails(data, workload_rest) ==
    [type |-> "WorkloadDetails",
     name |-> data.name,
     istio_sidecar |-> workload_rest.istio_sidecar,
     pods_number |-> Len(pod_rows(data)),
     destination_services_number |-> Len(data.destinationServices),
     destination_services |->
         [i \in 1..Len(data.destinationServices) |->
             [from |-> WorkloadName,
              name |-> data.destinationServices[i].name,
              namespace |-> data.destinationServices[i].namespace]],
     pods |-> pod_rows(data)]

WorkloadNamespace == "bookinfo"

\* the upstream calls of workload_details: the detail document, then, for a
\* truthy document, the list query with the health of every workload listed
\* and, when pop() finds the workload, get_workload_health
workload_details_calls(data, listing) ==
    <<<<"workloadDetails", WorkloadNamespace, WorkloadName>>>>
    \o (IF ~Truthy(data) THEN <<>>
        ELSE <<<<"workloadList", WorkloadNamespace>>>>
             \o [i \in 1..Len(listing) |->
                    <<"workloadHealth", WorkloadNamespace, listing[i].name>>]
             \o (IF workload_list_named(listing, WorkloadName) = {} THEN <<>>
                 ELSE <<<<"workloadHealth", WorkloadNamespace, data.name>>>>))

workload_details ==
    /\ workload = Unset
    /\ IF ~Truthy(workload_data)
       THEN workload' = NoneVal
       ELSE LET found == workload_list_named(workload_listing, WorkloadName)
            IN  IF found = {}
                THEN workload' = Raise("KeyError")
                ELSE \E workload_rest \in found :
                        workload' = WorkloadDetails(workload_data, workload_rest)
    /\ calls' = workload_details_calls(workload_data, workload_listing)
    /\ query' = "workload_details"
    /\ UNCHANGED <<workload_data, workload_listing,
                   validationVars, configVars, overviewVars, listVars, detailVars,
                   crudVars, raceVars, appVars>>

-----------------------------------------------------------------------------
(* istio_config_list *)

MaxFilters == 2

NoChecks == [type |-> "dict", checks |-> <<>>]
OneError == [type |-> "dict", checks |-> <<[severity |-> "error", message |-> "KIA0301"]>>]

\* the objects the backend can hold: the section of the istioConfigList
\* envelope each is listed in, the validation document served for it, and
\* the cluster resource that lists it with its kind
ConfigPool ==
    <<[namespace |-> "bookinfo", section |-> "destinationRules", path |-> "destinationrules",
       metadata |-> [name |-> <<"f", "o", "o">>], validation |-> NoChecks,
       resource |-> "_destinationrule", kind |-> IstioConfigObjectType.DESTINATION_RULE],
      [namespace |-> "bookinfo", section |-> "virtualServices", path |-> "virtualservices",
       metadata |-> [name |-> <<"f", "o", "o", "b", "a", "r">>], validation |-> OneError,
       resource |-> "_virtualservice", kind |-> IstioConfigObjectType.VIRTUAL_SERVICE],
      [namespace |-> "bookinfo", section |-> "gateways", path |-> "gateways",
       metadata |-> [name |-> <<"f", "o", "o", "b", "a", "r">>], validation |-> NoChecks,
       resource |-> "_gateway", kind |-> IstioConfigObjectType.GATEWAY],
      [namespace |-> "istio-system", section |-> "rules", path |-> "rules",
       metadata |-> [name |-> <<"b", "a", "r">>], validation |-> NoneVal,
       resource |-> "_rule", kind |-> <<"r", "u", "l", "e">>],
      [namespace |-> "istio-system", section |-> "adapters", path |-> "adapters",
       metadata |-> [name |-> <<"f", "o", "o", "h", "a", "n", "d", "l", "e", "r">>],
       adapter |-> <<"p", "r", "o", "m", "e", "t", "h", "e", "u", "s">>,
       validation |-> NoneVal,
       resource |-> "_prometheus", kind |-> <<"p", "r", "o", "m", "e", "t", "h", "e", "u", "s">>],
      [namespace |-> "bookinfo", section |-> "templates", path |-> "templates",
       metadata |-> [name |-> <<"b", "a", "r", "l", "o", "g">>],
       template |-> <<"l", "o", "g", "e", "n", "t", "r", "y">>,
       validation |-> NoneVal,
       resource |-> "_logentry", kind |-> <<"l", "o", "g", "e", "n", "t", "r", "y">>],
      [namespace |-> "istio-system", section |-> "gateways", path |-> "gateways",
       metadata |-> [name |-> <<"b", "a", "r">>], validation |-> NoneVal,
       resource |-> "_gateway", kind |-> IstioConfigObjectType.GATEWAY]>>

RECURSIVE Pick(_, _, _)
Pick(pool, chosen, i) ==
    IF i > Len(pool) THEN <<>>
    ELSE (IF i \in chosen THEN <<pool[i]>> ELSE <<>>) \o Pick(pool, chosen, i + 1)

Backends == {Pick(ConfigPool, chosen, 1) : chosen \in SUBSET (1..Len(ConfigPool))}

FilterNames == {IstioConfigPageFilter.ISTIO_TYPE, IstioConfigPageFilter.ISTIO_NAME,
                IstioConfigPageFilter.CONFIG}
FilterValues ==
    [n \in FilterNames |->
        IF n = IstioConfigPageFilter.ISTIO_TYPE
        THEN {IstioConfigObjectType.GATEWAY, IstioConfigObjectType.RULE}
        ELSE IF n = IstioConfigPageFilter.ISTIO_NAME
        THEN {<<"f", "o", "o">>, <<"b", "a", "r">>}
        ELSE {<<"x">>}]
Filters == UNION {{[name |-> n, value |-> v] : v \in FilterValues[n]} : n \in FilterNames}

Namespaces == {"bookinfo", "istio-system"}

\* namespace_list()
namespace_list == <<"bookinfo", "istio-system">>

\* get_response('istioConfigList', namespace=_namespace)
Section(backend, namespace, section) ==
    SelectSeq(backend, LAMBDA o : o.namespace = namespace /\ o.section = section)

istioConfigList(backend, namespace) ==
    [destinationRules |-> [items |-> Section(backend, namespace, "destinationRules")],
     rules |-> Section(backend, namespace, "rules"),
     adapters |-> Section(backend, namespace, "adapters"),
     templates |-> Section(backend, namespace, "templates"),
     virtualServices |-> [items |-> Section(backend, namespace, "virtualServices")],
     quotaSpecs |-> Section(backend, namespace, "quotaSpecs"),
     quotaSpecBindings |-> Section(backend, namespace, "quotaSpecBindings"),
     gateways |-> Section(backend, namespace, "gateways"),
     serviceEntries |-> Section(backend, namespace, "serviceEntries")]

\* get_validation('istioConfigDetails', namespace, object_type, object)
get_validation(backend, namespace, object_type, object) ==
    LET found == SelectSeq(backend, LAMBDA o : /\ o.namespace = namespace
                                               /\ o.path = object_type
                                               /\ o.metadata.name = object)
    IN  IF found = <<>> THEN NoneVal ELSE found[1].validation

IstioConfig(backend, policies, namespace, object_type, path) ==
    [i \in 1..Len(policies) |->
        [class |-> "IstioConfig",
         name |-> policies[i].metadata.name,
         namespace |-> namespace,
         object_type |-> object_type,
         validation |-> get_istio_config_validation(
             get_validation(backend, namespace, path, policies[i].metadata.name))]]

Rule(policies, namespace, object_type) ==
    [i \in 1..Len(policies) |->
        [class |-> "Rule",
         name |-> policies[i].metadata.name,
         namespace |-> namespace,
         object_type |-> object_type]]

\* '{}:{}'.format(category, sub_kind): no space after the colon
RuleWith_no_space(policies, namespace, category, field) ==
    [i \in 1..Len(policies) |->
        [class |-> "Rule",
         name |-> policies[i].metadata.name,
         namespace |-> namespace,
         object_type |-> category \o <<":">> \o policies[i][field]]]

\* '{}: {}'.format(category, sub_kind)
RuleWith(policies, namespace, category, field) ==
    [i \in 1..Len(policies) |->
        [class |-> "Rule",
         name |-> policies[i].metadata.name,
         namespace |-> namespace,
         object_type |-> category \o <<":", " ">> \o policies[i][field]]]

\* the items one namespace adds, in the order of the sections in the code
namespace_items(backend, namespace) ==
    LET data == istioConfigList(backend, namespace)
        T == IstioConfigObjectType
    IN  IstioConfig(backend, data.destinationRules.items, namespace,
                    T.DESTINATION_RULE, "destinationrules")
        \o Rule(data.rules, namespace, T.RULE)
        \o RuleWith(data.adapters, namespace, T.ADAPTER, "adapter")
        \o RuleWith(data.templates, namespace, T.TEMPLATE, "template")
        \o IstioConfig(backend, data.virtualServices.items, namespace,
                       T.VIRTUAL_SERVICE, "virtualservices")
        \o IstioConfig(backend, data.quotaSpecs, namespace, T.QUOTA_SPEC, "quotaspecs")
        \o IstioConfig(backend, data.quotaSpecBindings, namespace,
                       T.QUOTA_SPEC_BINDING, "quotaspecbindings")
        \o IstioConfig(backend, data.gateways, namespace, T.GATEWAY, "gateways")
        \o IstioConfig(backend, data.serviceEntries, namespace,
                       T.SERVICE_ENTRY, "serviceentries")

RECURSIVE config_items(_, _)
config_items(backend, nss) ==
    IF nss = <<>> THEN <<>>
    ELSE namespace_items(backend, Head(nss)) \o config_items(backend, Tail(nss))

Values(fs) == [i \in 1..Len(fs) |-> fs[i].value]

\* the loop over the filters: the first test of every pass reads
\* FILTER_TYPE.NAMESPACE, and reading a name the enum class does not define
\* raises AttributeError
sort_filters(fs) ==
    IF fs # <<>> /\ "NAMESPACE" \notin DOMAIN IstioConfigPageFilter
    THEN Raise("AttributeError")
    ELSE LET F == IstioConfigPageFilter
             isNs(f) == Contains(f.name, F.NAMESPACE)
             isName(f) == ~isNs(f) /\ Contains(f.name, F.ISTIO_NAME)
             isType(f) == ~isNs(f) /\ ~isName(f) /\ Contains(f.name, F.ISTIO_TYPE)
         IN  [type |-> "filters",
              namespaces |-> Values(SelectSeq(fs, isNs)),
              istio_names |-> Values(SelectSeq(fs, isName)),
              istio_types |-> Values(SelectSeq(fs, isType))]

Range(q) == {q[i] : i \in 1..Len(q)}

\* the filters applied to the items built
apply_filters(items, istio_names, istio_types) ==
    LET name_filtered == {it \in Range(items) :
                             \E n \in Range(istio_names) : Contains(it.name, n)}
        type_filtered == {it \in Range(items) :
                             \E t \in Range(istio_types) : Contains(it.object_type, t)}
    IN  IF Len(istio_names) > 0 /\ Len(istio_types) > 0
        THEN [type |-> "set", items |-> name_filtered \cap type_filtered]
        ELSE IF Len(istio_names) > 0
        THEN [type |-> "set", items |-> name_filtered]
        ELSE IF Len(istio_types) > 0
        THEN [type |-> "set", items |-> type_filtered]
        ELSE [type |-> "list", items |-> items]

istio_config_list ==
    /\ config_list = Unset
    /\ LET sorted == sort_filters(filters)
       IN  IF sorted.type = "raise"
           THEN config_list' = sorted
           ELSE LET nss == IF Len(sorted.namespaces) > 0
                           THEN sorted.namespaces ELSE namespace_list
                IN  config_list' = apply_filters(config_items(config_data, nss),
                                                 sorted.istio_names, sorted.istio_types)
    /\ UNCHANGED <<config_data, filters, os_namespaces, os_config_names, os_config_list,
                   validationVars, workloadVars, overviewVars, listVars, detailVars, calls, query,
                   crudVars, raceVars, appVars>>

-----------------------------------------------------------------------------
(* openshift_api.py: istio_config_list, _resource_list *)

OsNamespaces == {<<>>, <<"istio-system">>, <<"bookinfo", "istio-system">>}
OsConfigNames == {<<>>, <<<<"b", "a", "r">>>>}

\* getattr(self, attribute_name).get(namespace=_namespace).items
resource_get_namespaced(backend, attribute_name, namespace) ==
    SelectSeq(backend, LAMBDA o : o.resource = attribute_name /\ o.namespace = namespace)

\* getattr(self, attribute_name).get().items
resource_get(backend, attribute_name) ==
    SelectSeq(backend, LAMBDA o : o.resource = attribute_name)

\* _raw_items
RECURSIVE raw_items(_, _, _)
raw_items(backend, attribute_name, namespaces) ==
    IF namespaces = <<>> THEN <<>>
    ELSE resource_get_namespaced(backend, attribute_name, Head(namespaces))
         \o raw_items(backend, attribute_name, Tail(namespaces))

\* the Rule or IstioConfig built from one raw item
resource_item(item, resource_type) ==
    IF resource_type = IstioConfigObjectType.RULE
    THEN [class |-> "Rule", name |-> item.metadata.name, namespace |-> item.namespace,
          object_type |-> resource_type]
    ELSE IF resource_type = IstioConfigObjectType.ADAPTER
            \/ resource_type = IstioConfigObjectType.TEMPLATE
    THEN [class |-> "Rule", name |-> item.metadata.name, namespace |-> item.namespace,
          object_type |-> resource_type \o <<":", " ">> \o item.kind]
    ELSE [class |-> "IstioConfig", name |-> item.metadata.name,
          namespace |-> item.namespace, object_type |-> resource_type]

_resource_list(backend, attribute_name, resource_type, namespaces, resource_names) ==
    LET raw == IF Len(namespaces) > 0
               THEN raw_items(backend, attribute_name, namespaces)
               ELSE resource_get(backend, attribute_name)
        items == [i \in 1..Len(raw) |-> resource_item(raw[i], resource_type)]
    IN  IF Len(resource_names) > 0
        THEN [type |-> "set",
              items |-> {it \in Range(items) :
                            \E n \in Range(resource_names) : Contains(it.name, n)}]
        ELSE [type |-> "list", items |-> items]

\* the resources istio_config_list reads, in its order
Resources ==
    <<<<"_gateway", IstioConfigObjectType.GATEWAY>>,
      <<"_virtualservice", IstioConfigObjectType.VIRTUAL_SERVICE>>,
      <<"_destinationrule", IstioConfigObjectType.DESTINATION_RULE>>,
      <<"_serviceentry", IstioConfigObjectType.SERVICE_ENTRY>>,
      <<"_rule", IstioConfigObjectType.RULE>>,
      <<"_kubernetesenv", IstioConfigObjectType.ADAPTER>>,
      <<"_prometheus", IstioConfigObjectType.ADAPTER>>,
      <<"_stdio", IstioConfigObjectType.ADAPTER>>,
      <<"_logentry", IstioConfigObjectType.TEMPLATE>>,
      <<"_kubernetes", IstioConfigObjectType.TEMPLATE>>,
      <<"_metric", IstioConfigObjectType.TEMPLATE>>,
      <<"_quotaspec", IstioConfigObjectType.QUOTA_SPEC>>,
      <<"_quotaspecbinding", IstioConfigObjectType.QUOTA_SPEC_BINDING>>>>

\* the orders in which a list, or the iteration of a set, can be appended
Orderings(l) ==
    IF l.type = "list" THEN {l.items}
    ELSE {q \in [1..Cardinality(l.items) -> l.items] : Range(q) = l.items}

\* result.extend(...) for every resource: the lists it can build
RECURSIVE extend_all(_, _, _, _)
extend_all(backend, resources, namespaces, config_names) ==
    IF resources = <<>> THEN {<<>>}
    ELSE {a \o b :
            a \in Orderings(_resource_list(backend, Head(resources)[1], Head(resources)[2],
                                           namespaces, config_names)),
            b \in extend_all(backend, Tail(resources), namespaces, config_names)}

openshift_istio_config_list ==
    /\ os_config_list = Unset
    /\ \E result \in extend_all(config_data, Resources, os_namespaces, os_config_names) :
          os_config_list' = [type |-> "list", items |-> result]
    /\ UNCHANGED <<config_data, filters, config_list, os_namespaces, os_config_names,
                   validationVars, workloadVars, overviewVars, listVars, detailVars, calls, query,
                   crudVars, raceVars, appVars>>

-----------------------------------------------------------------------------
(* OpenshiftExtendedClient.application_list *)

MaxWorkloads == 2

DigitChars == {Digits[i] : i \in 1..Len(Digits)}
WordChars ==
    DigitChars \cup {"_"}
    \cup {"a", "b", "c", "d", "e", "f", "g", "h", "i", "j", "k", "l", "m",
          "n", "o", "p", "q", "r", "s", "t", "u", "v", "w", "x", "y", "z"}
    \cup {"A", "B", "C", "D", "E", "F", "G", "H", "I", "J", "K", "L", "M",
          "N", "O", "P", "Q", "R", "S", "T", "U", "V", "W", "X", "Y", "Z"}

AllIn(t, S) == \A k \in 1..Len(t) : t[k] \in S

\* (-v\d+-.*) at the head of t: the match runs to the end of the name
VersionInfix(t) ==
    /\ Len(t) >= 4 /\ t[1] = "-" /\ t[2] = "v"
    /\ \E d \in 3..(Len(t) - 1) : AllIn(SubSeq(t, 3, d), DigitChars) /\ t[d + 1] = "-"

\* (-v\d+$) on the whole of t
VersionSuffix(t) ==
    Len(t) >= 3 /\ t[1] = "-" /\ t[2] = "v" /\ AllIn(SubSeq(t, 3, Len(t)), DigitChars)

\* (-(\w{0,7}\d+\w{0,7})$) on the whole of t
HashSuffix(t) ==
    /\ Len(t) >= 2 /\ t[1] = "-"
    /\ \E a \in 2..Len(t) : \E b \in a..Len(t) :
          /\ AllIn(SubSeq(t, a, b), DigitChars)
          /\ a - 2 <= 7 /\ Len(t) - b <= 7
          /\ AllIn(SubSeq(t, 2, a - 1), WordChars)
          /\ AllIn(SubSeq(t, b + 1, Len(t)), WordChars)

\* the positions of name where the pattern matches more than the empty string
Matches(name) ==
    {i \in 1..Len(name) :
        \/ VersionInfix(SubSeq(name, i, Len(name)))
        \/ VersionSuffix(SubSeq(name, i, Len(name)))
        \/ HashSuffix(SubSeq(name, i, Len(name)))}

Least(S) == CHOOSE i \in S : \A j \in S : i <= j

\* re.sub(regex, '', name): every match that is not empty runs to the end of
\* the name, so the name is cut at the leftmost one
re_sub(name) ==
    IF Matches(name) = {} THEN name ELSE SubSeq(name, 1, Least(Matches(name)) - 1)

Application(name, namespace) == [class |-> "Application", name |-> name, namespace |-> namespace]

\* workload.app_label if workload.app_label else re.sub(regex, '', workload.name)
application_name(workload_) ==
    IF workload_.app_label # <<>> THEN workload_.app_label ELSE re_sub(workload_.name)

\* name+workload.namespace
application_key(name, namespace) == name \o namespace

\* result[key] = value on a dict that keeps the order of insertion
dict_set(result, key, value) ==
    IF \E i \in 1..Len(result) : result[i].key = key
    THEN [i \in 1..Len(result) |->
             IF result[i].key = key THEN [key |-> key, value |-> value] ELSE result[i]]
    ELSE Append(result, [key |-> key, value |-> value])

\* the loop over the workloads
RECURSIVE applications(_, _)
applications(workloads, result) ==
    IF workloads = <<>> THEN result
    ELSE applications(
             Tail(workloads),
             dict_set(result,
                      application_key(application_name(workloads[1]), workloads[1].namespace),
                      Application(application_name(workloads[1]), workloads[1].namespace)))

values(result) == [i \in 1..Len(result) |-> result[i].value]

\* the filter by application name: a set of the values one of the names is
\* contained in
application_list_of(workloads, application_names) ==
    IF Len(application_names) > 0
    THEN [type |-> "set", application_names |-> application_names,
          list |-> <<>>,
          set |-> {values(applications(workloads, <<>>))[i] :
                      i \in {j \in 1..Len(applications(workloads, <<>>)) :
                                \E n \in 1..Len(application_names) :
                                    Contains(values(applications(workloads, <<>>))[j].name,
                                             application_names[n])}}]
    ELSE [type |-> "list", application_names |-> application_names,
          list |-> values(applications(workloads, <<>>)),
          set |-> {}]

\* the workloads workload_list can return: metadata.name, metadata.namespace
\* and the app label (the empty string where the label is absent or empty)
OsWorkloadNames ==
    {<<"a">>, <<"a", "a">>, <<"a", "-", "v", "1">>, <<"a", "-", "v", "1", "-", "a">>,
     <<"a", "-", "a", "1">>, <<"a", "-", "a">>}
OsAppLabels == {<<>>, <<"a">>, <<"a", "a">>}
OsAppNamespaces == {<<"b">>, <<"a", "b">>}
OsWorkloads == [name : OsWorkloadNames, namespace : OsAppNamespaces, app_label : OsAppLabels]
ApplicationNames == {<<>>, <<<<"a", "a">>>>}

openshift_application_list ==
    /\ os_applications = Unset
    /\ \E application_names \in ApplicationNames :
          os_applications' = application_list_of(os_workloads, application_names)
    /\ UNCHANGED <<os_workloads, crudVars, raceVars, validationVars, workloadVars, configVars,
                   overviewVars, listVars, detailVars, calls, query>>

-----------------------------------------------------------------------------
(* service_list, application_list, workload_list, overview_list *)

MaxFailAt == 4

\* Python None in a slot that otherwise holds a string
PyNone == "None"

ItemNames == {<<"r", "1">>, <<"r", "1", "0">>, <<"d">>}

RawItem(name) ==
    [name |-> name,
     istioSidecar |-> (name = <<"r", "1">>),
     type |-> "Deployment",
     labels |-> IF name = <<"d">> THEN {} ELSE {<<"app", "reviews">>}]

\* the 'services' / 'applications' / 'workloads' value of a list document:
\* JSON null, or an array
NullSection == [null |-> TRUE, items |-> <<>>]
ArraySection(names) ==
    [null |-> FALSE, items |-> [i \in 1..Len(names) |-> RawItem(names[i])]]

Listings ==
    {[ns \in Namespaces |-> IF ns = "bookinfo" THEN b ELSE i] :
        b \in {NullSection, ArraySection(<<>>), ArraySection(<<<<"r", "1">>>>),
               ArraySection(<<<<"r", "1">>, <<"r", "1", "0">>>>)},
        i \in {ArraySection(<<>>), ArraySection(<<<<"d">>>>)}}

HealthDoc(status) == [type |-> "dict", status |-> status]
HealthDocs == {EmptyDict} \cup {HealthDoc(HealthType[m]) : m \in DOMAIN HealthType}

\* the health documents of the three items: every document for r1, two each
\* for the others
HealthAssignments ==
    {[n \in ItemNames |-> IF n = <<"r", "1">> THEN a
                          ELSE IF n = <<"d">> THEN c ELSE b] :
        a \in HealthDocs,
        b \in {HealthDoc(HealthType.HEALTHY), HealthDoc(HealthType.FAILURE)},
        c \in {EmptyDict, HealthDoc(HealthType.DEGRADED)}}

NamespaceScopes == {<<>>, <<"bookinfo">>, <<"istio-system", "bookinfo">>,
                    <<"bookinfo", "bookinfo">>}
NameFilters == {<<>>, <<<<"r", "1">>>>, <<<<"r", "1">>, <<"1">>>>}

ListMethod == [service |-> "serviceList", application |-> "appList", workload |-> "workloadList"]
HealthMethod ==
    [service |-> "serviceHealth", application |-> "appHealth", workload |-> "workloadHealth"]
EntityClass == [service |-> "Service", application |-> "Application", workload |-> "Workload"]

\* the state of a running query: the calls issued so far, the call that is
\* to fail, and the exception raised ("" while none is)
Running(fail) == [calls |-> <<>>, fail |-> fail, err |-> ""]

\* get_response: one upstream request; its failure is raised to the caller
get_response(st, method, args) ==
    LET issued == Append(st.calls, <<method>> \o args)
    IN  [st EXCEPT !.calls = issued,
                   !.err = IF Len(issued) = st.fail THEN "ConnectionError" ELSE ""]

\* XHealth.get_from_rest(_health_data).is_healthy()
is_healthy(health_data_) == health_data_.status

\* a failed health request yields the health None
get_health_swallowing(st, kind, namespace, name, docs) ==
    LET st1 == get_response(st, HealthMethod[kind], <<namespace, name>>)
    IN  IF st1.err # "" THEN [st |-> [st1 EXCEPT !.err = ""], health |-> PyNone]
        ELSE [st |-> st1,
              health |-> IF Truthy(docs[name]) THEN is_healthy(docs[name]) ELSE PyNone]

\* get_service_health, get_workload_health, get_app_health
get_health(st, kind, namespace, name, docs) ==
    LET st1 == get_response(st, HealthMethod[kind], <<namespace, name>>)
    IN  IF st1.err # "" THEN [st |-> st1, health |-> PyNone]
        ELSE [st |-> st1,
              health |-> IF Truthy(docs[name]) THEN is_healthy(docs[name]) ELSE PyNone]

\* Service(...), Application(...), Workload(...)
Entity(kind, namespace, rest, health) ==
    IF kind = "workload"
    THEN [class |-> EntityClass[kind], namespace |-> namespace, name |-> rest.name,
          workload_type |-> rest.type, istio_sidecar |-> rest.istioSidecar,
          app_label |-> \E l \in get_labels(rest) : l[1] = "app",
          version_label |-> \E l \in get_labels(rest) : l[1] = "version",
          health |-> health]
    ELSE [class |-> EntityClass[kind], namespace |-> namespace, name |-> rest.name,
          istio_sidecar |-> rest.istioSidecar, health |-> health]

\* the health is requested for the first item only and reused for the rest
RECURSIVE build_items_single_health(_, _, _, _, _, _)
build_items_single_health(kind, namespace, raw, docs, st, items) ==
    IF raw = <<>> THEN [st |-> st, items |-> items]
    ELSE IF items # <<>>
    THEN build_items_single_health(
             kind, namespace, Tail(raw), docs, st,
             Append(items, Entity(kind, namespace, raw[1], items[Len(items)].health)))
    ELSE LET h == get_health(st, kind, namespace, raw[1].name, docs)
         IN  IF h.st.err # "" THEN [st |-> h.st, items |-> items]
             ELSE build_items_single_health(
                      kind, namespace, Tail(raw), docs, h.st,
                      Append(items, Entity(kind, namespace, raw[1], h.health)))

\* the loop over the raw items of one namespace
RECURSIVE build_items(_, _, _, _, _, _)
build_items(kind, namespace, raw, docs, st, items) ==
    IF raw = <<>> THEN [st |-> st, items |-> items]
    ELSE LET h == get_health(st, kind, namespace, raw[1].name, docs)
         IN  IF h.st.err # "" THEN [st |-> h.st, items |-> items]
             ELSE build_items(kind, namespace, Tail(raw), docs, h.st,
                              Append(items, Entity(kind, namespace, raw[1], h.health)))

\* the loop over the namespaces; service_list iterates the section without
\* testing it, application_list and workload_list skip a falsy section
RECURSIVE build_namespaces(_, _, _, _, _, _)
build_namespaces(kind, nss, lst, docs, st, items) ==
    IF nss = <<>> THEN [st |-> st, items |-> items]
    ELSE LET st1 == get_response(st, ListMethod[kind], <<Head(nss)>>)
             section == lst[Head(nss)]
         IN  IF st1.err # "" THEN [st |-> st1, items |-> items]
             ELSE IF section.null
             THEN IF kind = "service"
                  THEN [st |-> [st1 EXCEPT !.err = "TypeError"], items |-> items]
                  ELSE build_namespaces(kind, Tail(nss), lst, docs, st1, items)
             ELSE LET b == build_items(kind, Head(nss), section.items, docs, st1, items)
                  IN  IF b.st.err # "" THEN b
                      ELSE build_namespaces(kind, Tail(nss), lst, docs, b.st, b.items)

\* the namespaces a query visits: a fresh list extended with the argument, or
\* the value of namespace_list(); namespaces is the argument's list after it
scope_namespaces(st, namespaces) ==
    IF Len(namespaces) > 0
    THEN [st |-> st, nss |-> <<>> \o namespaces, namespaces |-> namespaces]
    ELSE LET st1 == get_response(st, "namespaceList", <<>>)
         IN  [st |-> st1, nss |-> IF st1.err # "" THEN <<>> ELSE namespace_list,
              namespaces |-> namespaces]

\* name equal to a filter string, instead of containing it
filter_by_name_exact(items, names) ==
    IF Len(names) > 0
    THEN [type |-> "set",
          items |-> {it \in Range(items) : \E n \in Range(names) : it.name = n}]
    ELSE [type |-> "list", items |-> items]

\* the name filter at the end of the three list queries
filter_by_name(items, names) ==
    IF Len(names) > 0
    THEN [type |-> "set",
          items |-> {it \in Range(items) : \E n \in Range(names) : Contains(it.name, n)}]
    ELSE [type |-> "list", items |-> items]

\* service_list / application_list / workload_list started in state st
entity_list(kind, st, namespaces, names, lst, docs) ==
    LET sc == scope_namespaces(st, namespaces)
        b == IF sc.st.err # "" THEN [st |-> sc.st, items |-> <<>>]
             ELSE build_namespaces(kind, sc.nss, lst, docs, sc.st, <<>>)
    IN  [st |-> b.st,
         result |-> IF b.st.err # "" THEN Raise(b.st.err)
                    ELSE filter_by_name(b.items, names),
         namespaces |-> sc.namespaces]

service_list ==
    /\ list_result = Unset
    /\ LET q == entity_list("service", Running(fail_at), ns_scope, name_filter,
                            listings, healths)
       IN  list_result' = q.result /\ calls' = q.st.calls /\ ns_scope' = q.namespaces
    /\ query' = "service_list"
    /\ UNCHANGED <<listings, healths, fail_at, name_filter, ov_locals,
                   validationVars, workloadVars, configVars, overviewVars, detailVars,
                   crudVars, raceVars, appVars>>

application_list ==
    /\ list_result = Unset
    /\ LET q == entity_list("application", Running(fail_at), ns_scope, name_filter,
                            listings, healths)
       IN  list_result' = q.result /\ calls' = q.st.calls /\ ns_scope' = q.namespaces
    /\ query' = "application_list"
    /\ UNCHANGED <<listings, healths, fail_at, name_filter, ov_locals,
                   validationVars, workloadVars, configVars, overviewVars, detailVars,
                   crudVars, raceVars, appVars>>

workload_list ==
    /\ list_result = Unset
    /\ LET q == entity_list("workload", Running(fail_at), ns_scope, name_filter,
                            listings, healths)
       IN  list_result' = q.result /\ calls' = q.st.calls /\ ns_scope' = q.namespaces
    /\ query' = "workload_list"
    /\ UNCHANGED <<listings, healths, fail_at, name_filter, ov_locals,
                   validationVars, workloadVars, configVars, overviewVars, detailVars,
                   crudVars, raceVars, appVars>>

\* the parameters of Overview.__init__
OverviewParams == {"overview_type", "namespace", "items", "healthy", "unhealthy", "degraded"}

\* Overview(**kwargs): a keyword that names no parameter raises TypeError
Overview(kwargs) ==
    IF DOMAIN kwargs \subseteq OverviewParams
    THEN [class |-> "Overview",
          overview_type |-> kwargs.overview_type,
          namespace |-> kwargs.namespace,
          items |-> kwargs.items,
          healthy |-> IF "healthy" \in DOMAIN kwargs THEN kwargs.healthy ELSE 0,
          unhealthy |-> IF "unhealthy" \in DOMAIN kwargs THEN kwargs.unhealthy ELSE 0,
          degraded |-> IF "degraded" \in DOMAIN kwargs THEN kwargs.degraded ELSE 0]
    ELSE Raise("TypeError")

CountHealth(items, h) == Cardinality({i \in 1..Len(items) : items[i].health = h})

\* the four tests of the pass over _items, each on its own counter
count_items(items) ==
    [healthy |-> CountHealth(items, HealthType.HEALTHY),
     degraded |-> CountHealth(items, HealthType.DEGRADED),
     unhealthy |-> CountHealth(items, HealthType.FAILURE),
     na |-> CountHealth(items, HealthType.NA)]

OverviewKind == [Services |-> "service", Workloads |-> "workload", Apps |-> "application"]

NoLocals == [counted |-> FALSE]

\* one pass of the loop body after the items are fetched: the counters and
\* the Overview built from them
namespace_overview(overview_type, namespace, items) ==
    LET c == count_items(items)
    IN  [locals |-> [counted |-> TRUE, namespace |-> namespace, items |-> items,
                     healthy |-> c.healthy, degraded |-> c.degraded,
                     unhealthy |-> c.unhealthy, na |-> c.na],
         overview |-> Overview([overview_type |-> overview_type,
                                namespace |-> namespace,
                                items |-> Len(items),
                                healthy |-> c.healthy,
                                unhealthy |-> c.unhealthy,
                                degraded |-> c.degraded,
                                na |-> c.na])]

\* the list query overview_list issues for one namespace
overview_items(overview_type, namespace, lst, docs, st) ==
    entity_list(IF overview_type = OverviewPageType.SERVICES THEN "service"
                ELSE IF overview_type = OverviewPageType.WORKLOADS THEN "workload"
                ELSE "application",
                st, <<namespace>>, <<>>, lst, docs)

\* the loop of overview_list over the namespaces
RECURSIVE build_overviews(_, _, _, _, _, _, _)
append_overview(overview_type, nss, lst, docs, st, overviews, n) ==
    IF n.overview.class = "raise"
    THEN [st |-> st, result |-> Raise(n.overview.error), locals |-> n.locals]
    ELSE build_overviews(overview_type, Tail(nss), lst, docs, st,
                         Append(overviews, n.overview), n.locals)

count_overview(overview_type, nss, lst, docs, q, overviews, locals) ==
    IF q.result.type = "raise"
    THEN [st |-> q.st, result |-> q.result, locals |-> locals]
    ELSE append_overview(overview_type, nss, lst, docs, q.st, overviews,
                         namespace_overview(overview_type, Head(nss), q.result.items))

build_overviews(overview_type, nss, lst, docs, st, overviews, locals) ==
    IF nss = <<>> THEN [st |-> st, result |-> [type |-> "list", items |-> overviews],
                        locals |-> locals]
    ELSE count_overview(overview_type, nss, lst, docs,
                        overview_items(overview_type, Head(nss), lst, docs, st),
                        overviews, locals)

overview_list ==
    /\ list_result = Unset
    /\ \E overview_type \in {OverviewPageType[m] : m \in DOMAIN OverviewPageType} :
          LET sc == scope_namespaces(Running(fail_at), ns_scope)
              b == IF sc.st.err # ""
                   THEN [st |-> sc.st, result |-> Raise(sc.st.err), locals |-> NoLocals]
                   ELSE build_overviews(overview_type, sc.nss, listings, healths,
                                        sc.st, <<>>, NoLocals)
          IN  /\ list_result' = b.result
              /\ calls' = b.st.calls
              /\ ov_locals' = b.locals
              /\ ns_scope' = sc.namespaces
    /\ query' = "overview_list"
    /\ UNCHANGED <<listings, healths, fail_at, name_filter,
                   validationVars, workloadVars, configVars, overviewVars, detailVars,
                   crudVars, raceVars, appVars>>

-----------------------------------------------------------------------------
(* service_details, application_details, istio_config_details *)

MaxRoutes == 2

DetailNamespace == "bookinfo"
DetailName == <<"r", "1">>

\* the 'destination' of a route: host, and any of subset, port and status
Destinations ==
    {[host |-> "reviews"],
     [host |-> "reviews", subset |-> "v1"],
     [host |-> "reviews", port |-> [number |-> 9080]],
     [host |-> "reviews", status |-> "ok"],
     [host |-> "reviews", subset |-> "v2", port |-> [number |-> 9080], status |-> "ok"]}

RouteWeights == {0, 50}

Routes ==
    {[destination |-> d] : d \in Destinations}
    \cup {[destination |-> d, weight |-> w] : d \in Destinations, w \in RouteWeights}

VirtualServiceData(name, routes) ==
    [metadata |-> [name |-> name, namespace |-> DetailNamespace],
     spec |-> [hosts |-> <<"reviews">>, http |-> <<[route |-> routes]>>],
     validation |-> OneError]

\* the 'virtualServices' value of the serviceDetails document
VirtualServiceSections ==
    {NoneVal, [type |-> "dict", items |-> <<>>]}
    \cup {[type |-> "dict", items |-> <<VirtualServiceData("reviews", rs)>>] :
             rs \in SeqsUpTo(Routes, MaxRoutes)}
    \cup {[type |-> "dict",
           items |-> <<VirtualServiceData("reviews", <<[destination |-> [host |-> "reviews"],
                                                        weight |-> 0]>>),
                       VirtualServiceData("ratings", <<[destination |-> [host |-> "reviews"],
                                                        weight |-> 50]>>)>>]}

ServiceData(vs) ==
    [type |-> "dict",
     service |-> [name |-> DetailName,
                  ports |-> <<[protocol |-> <<"T", "C", "P">>,
                               name |-> <<"h", "t", "t", "p">>, port |-> 9080],
                              [protocol |-> <<"T", "C", "P">>, name |-> <<>>, port |-> 80]>>,
                  labels |-> {<<"app", "reviews">>}],
     virtualServices |-> vs,
     destinationRules |-> NoneVal]

ServiceDocs == {NoneVal, EmptyDict} \cup {ServiceData(vs) : vs \in VirtualServiceSections}

ApplicationDocs ==
    {NoneVal, EmptyDict,
     [type |-> "dict", name |-> DetailName,
      workloads |-> <<[workloadName |-> "reviews-v1", istioSidecar |-> TRUE]>>,
      serviceNames |-> <<"reviews">>],
     [type |-> "dict", name |-> DetailName, workloads |-> <<>>]}

\* the seven sub-documents of the istioConfigDetails document, all null
NoConfig ==
    [type |-> "dict", objectType |-> "gateways",
     destinationRule |-> NoneVal, rule |-> NoneVal, virtualService |-> NoneVal,
     quotaSpec |-> NoneVal, quotaSpecBinding |-> NoneVal, gateway |-> NoneVal,
     serviceEntry |-> NoneVal, validation |-> NoneVal]

ConfigObject(name) == [type |-> "dict", metadata |-> [name |-> name]]

ConfigDocs ==
    {NoneVal, EmptyDict, NoConfig,
     [NoConfig EXCEPT !.gateway = ConfigObject("bar"), !.validation = NoChecks],
     [NoConfig EXCEPT !.objectType = "virtualservices",
                      !.virtualService = ConfigObject("foo"), !.validation = OneError],
     [NoConfig EXCEPT !.rule = ConfigObject("bar"), !.gateway = ConfigObject("foo")]}

\* pop() on the value of a list query: KeyError on the empty set, otherwise
\* any one element
pop(q) ==
    IF q.result.type = "raise" THEN q
    ELSE IF q.result.items = {} THEN [st |-> q.st, result |-> Raise("KeyError")]
    ELSE [st |-> q.st, result |-> [type |-> "popped", items |-> q.result.items]]

DetailMethod ==
    [service |-> "serviceDetails", application |-> "appDetails", workload |-> "workloadDetails"]

\* the list query is issued before the document is tested
details_rest_listing_first(kind, st, namespace, name, data, lst, docs) ==
    LET listed == pop(entity_list(kind, get_response(st, DetailMethod[kind],
                                                     <<namespace, name>>),
                                  <<namespace>>, <<name>>, lst, docs))
    IN  IF ~Truthy(data) THEN [st |-> listed.st, result |-> NoneVal]
        ELSE listed

\* the head of service_details and application_details: the detail document,
\* and for a truthy one the entity the list query finds
details_rest(kind, st, namespace, name, data, lst, docs) ==
    IF ~Truthy(data)
    THEN [st |-> get_response(st, DetailMethod[kind], <<namespace, name>>),
          result |-> NoneVal]
    ELSE pop(entity_list(kind, get_response(st, DetailMethod[kind], <<namespace, name>>),
                         <<namespace>>, <<name>>, lst, docs))

\* Python None in an optional field is the empty sequence, a value v is <<v>>

\* a weight of 0 is kept
VirtualServiceWeight_keeps_zero(route) ==
    [host |-> route.destination.host,
     subset |-> IF "subset" \in DOMAIN route.destination
                THEN <<route.destination.subset>> ELSE <<>>,
     port |-> IF "port" \in DOMAIN route.destination
              THEN <<route.destination.port.number>> ELSE <<>>,
     status |-> IF "status" \in DOMAIN route.destination
                THEN <<route.destination.status>> ELSE <<>>,
     weight |-> IF "weight" \in DOMAIN route THEN <<route.weight>> ELSE <<>>]

VirtualServiceWeight(route) ==
    [host |-> route.destination.host,
     subset |-> IF "subset" \in DOMAIN route.destination
                THEN <<route.destination.subset>> ELSE <<>>,
     port |-> IF "port" \in DOMAIN route.destination
              THEN <<route.destination.port.number>> ELSE <<>>,
     status |-> IF "status" \in DOMAIN route.destination
                THEN <<route.destination.status>> ELSE <<>>,
     weight |-> IF "weight" \in DOMAIN route /\ route.weight # 0
                THEN <<route.weight>> ELSE <<>>]

\* _weights of one virtual service
weights(vs_data) ==
    [i \in 1..Len(vs_data.spec.http[1].route) |->
        VirtualServiceWeight(vs_data.spec.http[1].route[i])]

VirtualService(vs_data) ==
    [status |-> get_istio_config_validation(vs_data.validation),
     name |-> vs_data.metadata.name,
     hosts |-> vs_data.spec.hosts,
     weights |-> weights(vs_data)]

\* the validation request issued for every virtual service
RECURSIVE validation_calls(_, _)
validation_calls(st, items) ==
    IF items = <<>> THEN st
    ELSE validation_calls(
             get_response(st, "istioConfigDetails",
                          <<items[1].metadata.namespace, "virtualservices",
                            items[1].metadata.name, "validate">>),
             Tail(items))

\* the items of a section that is tested before it is read
section_items(section) ==
    IF Truthy(section) /\ Len(section.items) > 0 THEN section.items ELSE <<>>

virtual_services(items) == [i \in 1..Len(items) |-> VirtualService(items[i])]

\* _ports
RECURSIVE ports_text(_)
ports_text(ports) ==
    IF ports = <<>> THEN <<>>
    ELSE ports[1].protocol
         \o (IF ports[1].name # <<>> THEN <<" ">> \o ports[1].name ELSE <<>>)
         \o <<" ", "(">> \o IntToStr(ports[1].port) \o <<")", " ">>
         \o ports_text(Tail(ports))

\* str.strip() of a text that has no leading blank
strip(text) == IF text # <<>> /\ text[Len(text)] = " " THEN DropLast(text, 1) ELSE text

ServiceDetails(data, service_rest, health) ==
    [class |-> "ServiceDetails",
     name |-> data.service.name,
     istio_sidecar |-> service_rest.istio_sidecar,
     ports |-> strip(ports_text(data.service.ports)),
     labels |-> get_labels(data.service),
     health |-> health,
     virtual_services |-> virtual_services(section_items(data.virtualServices))]

\* service_details once _service_rest is known
service_details_of(st, namespace, service_name, data, service_rest, docs) ==
    LET h == get_health(validation_calls(st, section_items(data.virtualServices)),
                        "service", namespace, service_name, docs)
    IN  [st |-> h.st, result |-> ServiceDetails(data, service_rest, h.health)]

service_details ==
    /\ details = Unset
    /\ detail_data \in ServiceDocs
    /\ LET r == details_rest("service", Running(fail_at), DetailNamespace, DetailName,
                             detail_data, listings, healths)
       IN  IF r.result.type = "popped"
           THEN \E service_rest \in r.result.items :
                   LET d == service_details_of(r.st, DetailNamespace, DetailName,
                                               detail_data, service_rest, healths)
                   IN  details' = d.result /\ calls' = d.st.calls
           ELSE details' = r.result /\ calls' = r.st.calls
    /\ query' = "service_details"
    /\ UNCHANGED <<detail_data, listVars, validationVars, workloadVars, configVars,
                   overviewVars,
                   crudVars, raceVars, appVars>>

ApplicationDetails(data, application_rest, health) ==
    [class |-> "ApplicationDetails",
     name |-> data.name,
     istio_sidecar |-> application_rest.istio_sidecar,
     health |-> health,
     workloads |-> [i \in 1..Len(data.workloads) |->
                       [name |-> data.workloads[i].workloadName,
                        istio_sidecar |-> data.workloads[i].istioSidecar]],
     services |-> IF "serviceNames" \in DOMAIN data THEN data.serviceNames ELSE <<>>]

\* application_details once _application_rest is known
application_details_of(st, namespace, data, application_rest, docs) ==
    LET h == get_health(st, "application", namespace, data.name, docs)
    IN  [st |-> h.st, result |-> ApplicationDetails(data, application_rest, h.health)]

application_details ==
    /\ details = Unset
    /\ detail_data \in ApplicationDocs
    /\ LET r == details_rest("application", Running(fail_at), DetailNamespace, DetailName,
                             detail_data, listings, healths)
       IN  IF r.result.type = "popped"
           THEN \E application_rest \in r.result.items :
                   LET d == application_details_of(r.st, DetailNamespace, detail_data,
                                                   application_rest, healths)
                   IN  details' = d.result /\ calls' = d.st.calls
           ELSE details' = r.result /\ calls' = r.st.calls
    /\ query' = "application_details"
    /\ UNCHANGED <<detail_data, listVars, validationVars, workloadVars, configVars,
                   overviewVars,
                   crudVars, raceVars, appVars>>

\* the seven tests in their order: the last truthy sub-document wins
ConfigFields == <<"destinationRule", "rule", "virtualService", "quotaSpec",
                  "quotaSpecBinding", "gateway", "serviceEntry">>

RECURSIVE config_data_of(_, _, _)
config_data_of(data, fields, found) ==
    IF fields = <<>> THEN found
    ELSE config_data_of(data, Tail(fields),
                        IF Truthy(data[Head(fields)]) THEN data[Head(fields)] ELSE found)

\* only the messages of the checks of severity error
get_istio_config_messages_errors_only(doc) ==
    IF Truthy(doc)
    THEN LET errors == SelectSeq(doc.checks, LAMBDA check : check.severity = "error")
         IN  [i \in 1..Len(errors) |-> errors[i].message]
    ELSE <<>>

\* get_istio_config_messages on the validation document
get_istio_config_messages(doc) ==
    IF Truthy(doc) THEN [i \in 1..Len(doc.checks) |-> doc.checks[i].message] ELSE <<>>

IstioConfigDetails(data, found) ==
    [class |-> "IstioConfigDetails",
     name |-> found.metadata.name,
     type |-> data.objectType,
     validation |-> get_istio_config_validation(data.validation),
     error_messages |-> get_istio_config_messages(data.validation)]

istio_config_details_of(st, namespace, object_type, object_name, data) ==
    IF ~Truthy(data) \/ ~Truthy(config_data_of(data, ConfigFields, NoneVal))
    THEN [st |-> st, result |-> NoneVal]
    ELSE [st |-> get_response(
                     get_response(st, "istioConfigDetails",
                                  <<namespace, object_type, object_name, "validate">>),
                     "istioConfigDetails",
                     <<namespace, object_type, object_name, "validate">>),
          result |-> IstioConfigDetails(data, config_data_of(data, ConfigFields, NoneVal))]

istio_config_details ==
    /\ details = Unset
    /\ detail_data \in ConfigDocs
    /\ \E object_type \in {"gateways", "virtualservices"} :
          LET d == istio_config_details_of(
                       get_response(Running(fail_at), "istioConfigDetails",
                                    <<DetailNamespace, object_type, "bar">>),
                       DetailNamespace, object_type, "bar", detail_data)
          IN  details' = d.result /\ calls' = d.st.calls
    /\ query' = "istio_config_details"
    /\ UNCHANGED <<detail_data, listVars, validationVars, workloadVars, configVars,
                   overviewVars,
                   crudVars, raceVars, appVars>>

-----------------------------------------------------------------------------
(* Overview.is_equal *)

OverviewTypes == {"Apps", "Services"}
Counts == 0..MaxCount

Overviews ==
    [class : {"Overview"}, overview_type : OverviewTypes, namespace : Namespaces,
     items : Counts, healthy : Counts, unhealthy : Counts, degraded : Counts]

\* objects that are not an Overview
OtherObjects == {[class |-> "Service"]}

is_equal_inverted(self, other, advanced_check) ==
    IF other.class # "Overview" THEN FALSE
    ELSE IF self.overview_type # other.overview_type THEN FALSE
    ELSE IF self.namespace # other.namespace THEN FALSE
    ELSE IF self.items # other.items THEN FALSE
    ELSE IF ~advanced_check /\ self.healthy # other.healthy THEN FALSE
    ELSE IF ~advanced_check /\ self.unhealthy # other.unhealthy THEN FALSE
    ELSE IF ~advanced_check /\ self.degraded # other.degraded THEN FALSE
    ELSE TRUE

is_equal(self, other, advanced_check) ==
    IF other.class # "Overview" THEN FALSE
    ELSE IF self.overview_type # other.overview_type THEN FALSE
    ELSE IF self.namespace # other.namespace THEN FALSE
    ELSE IF self.items # other.items THEN FALSE
    ELSE IF advanced_check /\ self.healthy # other.healthy THEN FALSE
    ELSE IF advanced_check /\ self.unhealthy # other.unhealthy THEN FALSE
    ELSE IF advanced_check /\ self.degraded # other.degraded THEN FALSE
    ELSE TRUE

NotCompared == [done |-> FALSE, advanced |-> FALSE, basic |-> FALSE]

\* a.is_equal(b, advanced_check=True) and a.is_equal(b, advanced_check=False)
IsEqual ==
    /\ ~ov_equal.done
    /\ ov_equal' = [done |-> TRUE,
                    advanced |-> is_equal(ov_self, ov_other, TRUE),
                    basic |-> is_equal(ov_self, ov_other, FALSE)]
    /\ UNCHANGED <<ov_self, ov_other, validationVars, workloadVars, configVars,
                   listVars, detailVars, calls, query,
                   crudVars, raceVars, appVars>>

-----------------------------------------------------------------------------
(* test_istio_objects_crud.py: the tests and their p_group marks *)

BOOKINFO_1 == "bookinfo"
BOOKINFO_2 == "bookinfo2"
REVIEWS == "reviews"
DETAILS == "details"
RATINGS == "ratings"
DEST_RULE == "destination-rule-cb-details.yaml"
DEST_RULE_VS_RATINGS == "destination-rule-ratings.yaml"
DEST_RULE_VS_REVIEWS == "destination-rule-reviews.yaml"
DEST_RULE_BROKEN == "destination-rule-cb-broken.yaml"
VIRTUAL_SERVICE == "virtual-service.yaml"
VIRTUAL_SERVICE_BROKEN == "virtual-service-broken.yaml"
VIRTUAL_SERVICE_BROKEN_WEIGHT == "virtual-service-broken-weight.yaml"
VIRTUAL_SERVICE_BROKEN_WEIGHT_TEXT == "virtual-service-broken-weight-text.yaml"
QUOTA_SPEC == "quota-spec.yaml"
QUOTA_SPEC_BINDING == "quota-spec-binding.yaml"
GATEWAY == "gateway.yaml"
SERVICE_ENTRY == "service-entry.yaml"
CLUSTER_RBAC_CONFIG == "cluster-rbac-config.yaml"
RBAC_CONFIG == "rbac-config.yaml"
SERVICE_ROLE == "service-role.yaml"
SERVICE_ROLE_BROKEN == "service-role-broken.yaml"
SERVICE_ROLE_BINDING == "service-role-binding.yaml"
SERVICE_ROLE_BINDING_BROKEN == "service-role-binding-broken.yaml"

\* the object a test creates before its main check: none, the DestinationRule
\* of _create_dest_rule_vs, or the ServiceRole of the role binding tests;
\* guarded tells whether its deletion stands in a finally clause
NoHelper == [kind |-> "none", conf |-> "", namespace |-> "", guarded |-> FALSE]
DestRuleHelper(destination_rule_conf) ==
    [kind |-> "DestinationRule", conf |-> destination_rule_conf,
     namespace |-> BOOKINFO_1, guarded |-> FALSE]
ServiceRoleHelper ==
    [kind |-> "ServiceRole", conf |-> SERVICE_ROLE, namespace |-> "default",
     guarded |-> TRUE]

\* the test functions in file order: the mark, the arguments passed to
\* _istio_config_test, and the helper object
Tests ==
    <<
      [name |-> "test_destination_rule", p_group |-> 1, namespace |-> BOOKINFO_1, picked |-> FALSE,
       kind |-> "DestinationRule", conf |-> DEST_RULE, service_name |-> DETAILS,
       check_service_details |-> TRUE, helper |-> NoHelper],
      [name |-> "test_destination_rule_broken", p_group |-> 1, namespace |-> BOOKINFO_1, picked |-> FALSE,
       kind |-> "DestinationRule", conf |-> DEST_RULE_BROKEN, service_name |-> DETAILS,
       check_service_details |-> TRUE, helper |-> NoHelper],
      [name |-> "test_virtual_service", p_group |-> 2, namespace |-> BOOKINFO_1, picked |-> FALSE,
       kind |-> "VirtualService", conf |-> VIRTUAL_SERVICE, service_name |-> REVIEWS,
       check_service_details |-> TRUE, helper |-> DestRuleHelper(DEST_RULE_VS_REVIEWS)],
      [name |-> "test_virtual_service_broken", p_group |-> 2, namespace |-> BOOKINFO_1, picked |-> FALSE,
       kind |-> "VirtualService", conf |-> VIRTUAL_SERVICE_BROKEN, service_name |-> REVIEWS,
       check_service_details |-> TRUE, helper |-> DestRuleHelper(DEST_RULE_VS_REVIEWS)],
      [name |-> "test_virtual_service_broken_weight", p_group |-> 2, namespace |-> BOOKINFO_1, picked |-> FALSE,
       kind |-> "VirtualService", conf |-> VIRTUAL_SERVICE_BROKEN_WEIGHT, service_name |-> REVIEWS,
       check_service_details |-> FALSE, helper |-> DestRuleHelper(DEST_RULE_VS_REVIEWS)],
      [name |-> "test_virtual_service_broken_weight_text", p_group |-> 3, namespace |-> BOOKINFO_1, picked |-> FALSE,
       kind |-> "VirtualService", conf |-> VIRTUAL_SERVICE_BROKEN_WEIGHT_TEXT, service_name |-> RATINGS,
       check_service_details |-> FALSE, helper |-> DestRuleHelper(DEST_RULE_VS_RATINGS)],
      [name |-> "test_quota_spec", p_group |-> 3, namespace |-> BOOKINFO_1, picked |-> FALSE,
       kind |-> "QuotaSpec", conf |-> QUOTA_SPEC, service_name |-> RATINGS,
       check_service_details |-> FALSE, helper |-> NoHelper],
      [name |-> "test_quota_spec_binding", p_group |-> 3, namespace |-> BOOKINFO_1, picked |-> FALSE,
       kind |-> "QuotaSpecBinding", conf |-> QUOTA_SPEC_BINDING, service_name |-> RATINGS,
       check_service_details |-> FALSE, helper |-> NoHelper],
      [name |-> "test_gateway", p_group |-> 3, namespace |-> BOOKINFO_2, picked |-> TRUE,
       kind |-> "Gateway", conf |-> GATEWAY, service_name |-> REVIEWS,
       check_service_details |-> FALSE, helper |-> NoHelper],
      [name |-> "test_service_entry", p_group |-> 1, namespace |-> BOOKINFO_1, picked |-> FALSE,
       kind |-> "ServiceEntry", conf |-> SERVICE_ENTRY, service_name |-> DETAILS,
       check_service_details |-> FALSE, helper |-> NoHelper],
      [name |-> "test_cluster_rbac_config", p_group |-> 6, namespace |-> "istio-system", picked |-> FALSE,
       kind |-> "ClusterRbacConfig", conf |-> CLUSTER_RBAC_CONFIG, service_name |-> DETAILS,
       check_service_details |-> FALSE, helper |-> NoHelper],
      [name |-> "test_rbac_config", p_group |-> 6, namespace |-> BOOKINFO_1, picked |-> FALSE,
       kind |-> "RbacConfig", conf |-> RBAC_CONFIG, service_name |-> DETAILS,
       check_service_details |-> FALSE, helper |-> NoHelper],
      [name |-> "test_service_role", p_group |-> 8, namespace |-> "default", picked |-> FALSE,
       kind |-> "ServiceRole", conf |-> SERVICE_ROLE, service_name |-> DETAILS,
       check_service_details |-> FALSE, helper |-> NoHelper],
      [name |-> "test_service_role_broken", p_group |-> 8, namespace |-> "default", picked |-> FALSE,
       kind |-> "ServiceRole", conf |-> SERVICE_ROLE_BROKEN, service_name |-> DETAILS,
       check_service_details |-> FALSE, helper |-> NoHelper],
      [name |-> "test_service_role_binding", p_group |-> 8, namespace |-> "default", picked |-> FALSE,
       kind |-> "ServiceRoleBinding", conf |-> SERVICE_ROLE_BINDING, service_name |-> DETAILS,
       check_service_details |-> FALSE, helper |-> ServiceRoleHelper],
      [name |-> "test_service_role_binding_broken", p_group |-> 8, namespace |-> "default", picked |-> FALSE,
       kind |-> "ServiceRoleBinding", conf |-> SERVICE_ROLE_BINDING_BROKEN, service_name |-> DETAILS,
       check_service_details |-> FALSE, helper |-> ServiceRoleHelper]
    >>

Groups == {Tests[i].p_group : i \in 1..Len(Tests)}

\* the tests that carry the mark p_group<g>, in file order
GroupTests(g) == SelectSeq(Tests, LAMBDA t : t.p_group = g)

\* the fixture pick_namespace: the namespace asked for, or the default one
pick_namespace(namespace) == {namespace, BOOKINFO_1}

\* the namespaces a test can work in
TestNamespaces(t) == IF t.picked THEN pick_namespace(t.namespace) ELSE {t.namespace}

NotRunning == [done |-> 0, active |-> FALSE, namespace |-> ""]

\* a group starts its next test; the groups run in parallel
StartTest ==
    /\ \E g \in Groups :
          /\ ~runner[g].active
          /\ runner[g].done < Len(GroupTests(g))
          /\ \E ns \in TestNamespaces(GroupTests(g)[runner[g].done + 1]) :
                runner' = [runner EXCEPT ![g] = [done |-> runner[g].done, active |-> TRUE,
                                                 namespace |-> ns]]
    /\ UNCHANGED <<istio_objects, crud, validationVars, workloadVars, configVars,
                   overviewVars, listVars, detailVars, raceVars, appVars, calls, query>>

\* the test in progress in a group ends
FinishTest ==
    /\ \E g \in Groups :
          /\ runner[g].active
          /\ runner' = [runner EXCEPT ![g] = [done |-> runner[g].done + 1,
                                               active |-> FALSE, namespace |-> ""]]
    /\ UNCHANGED <<istio_objects, crud, validationVars, workloadVars, configVars,
                   overviewVars, listVars, detailVars, raceVars, appVars, calls, query>>

-----------------------------------------------------------------------------
(* test_istio_objects_crud.py: one test run against the cluster *)

MaxFailStep == 7

\* an Istio object of the cluster; metadata.name is that of its yaml file
IstioObject(conf, namespace, kind) == [name |-> conf, namespace |-> namespace, kind |-> kind]

\* the state of a running test: the objects of the cluster, the operations so
\* far, the fallible steps so far, the step that is to raise, and the
\* exception raised ("" while none is)
Started(objects, fail) == [objects |-> objects, log |-> <<>>, step |-> 0, fail |-> fail, err |-> ""]

Logged(c, op, object, existed, objects, err) ==
    [c EXCEPT !.objects = objects,
              !.err = err,
              !.log = Append(c.log, [op |-> op, object |-> object, existed |-> existed,
                                     objects |-> objects, err |-> err])]

\* NotFoundError is raised to the caller
delete_istio_config_raising(c, name, namespace, kind) ==
    IF c.err # "" THEN c
    ELSE LET o == IstioObject(name, namespace, kind)
         IN  Logged(c, "delete_istio_config", o, o \in c.objects, c.objects \ {o},
                    IF o \in c.objects THEN "" ELSE "NotFoundError")

\* OpenshiftExtendedClient.delete_istio_config: the delete of an object that
\* is not there raises NotFoundError, which is passed over
delete_istio_config(c, name, namespace, kind) ==
    IF c.err # "" THEN c
    ELSE LET o == IstioObject(name, namespace, kind)
         IN  Logged(c, "delete_istio_config", o, o \in c.objects, c.objects \ {o}, "")

\* a step that can raise: the next fallible step of the run
Raises(c) == c.step + 1 = c.fail

\* OpenshiftExtendedClient.create_istio_config: the cluster refuses a second
\* object of the same name
create_istio_config(c, body, namespace, kind) ==
    IF c.err # "" THEN c
    ELSE LET o == IstioObject(body, namespace, kind)
         IN  IF Raises(c)
             THEN Logged([c EXCEPT !.step = c.step + 1], "create_istio_config", o,
                         o \in c.objects, c.objects, "ApiException")
             ELSE IF o \in c.objects
             THEN Logged([c EXCEPT !.step = c.step + 1], "create_istio_config", o,
                         TRUE, c.objects, "ConflictError")
             ELSE Logged([c EXCEPT !.step = c.step + 1], "create_istio_config", o,
                         FALSE, c.objects \cup {o}, "")

_istio_config_create(c, conf, kind, namespace) ==
    create_istio_config(delete_istio_config(c, conf, namespace, kind), conf, namespace, kind)

_istio_config_delete(c, conf, kind, namespace) ==
    delete_istio_config(c, conf, namespace, kind)

\* an assertion of the page tests: it passes or raises, and changes nothing
Check(c, op, conf, namespace, kind) ==
    IF c.err # "" THEN c
    ELSE Logged([c EXCEPT !.step = c.step + 1], op, IstioObject(conf, namespace, kind),
                IstioObject(conf, namespace, kind) \in c.objects, c.objects,
                IF Raises(c) THEN "AssertionError" ELSE "")

\* tests.delete_istio_config(name, namespace): the delete through the UI
_ui_istio_config_delete(c, conf, namespace, kind) ==
    IF c.err # "" THEN c
    ELSE IF Raises(c)
    THEN Logged([c EXCEPT !.step = c.step + 1], "ui_delete",
                IstioObject(conf, namespace, kind),
                IstioObject(conf, namespace, kind) \in c.objects, c.objects, "AssertionError")
    ELSE Logged([c EXCEPT !.step = c.step + 1], "ui_delete",
                IstioObject(conf, namespace, kind),
                IstioObject(conf, namespace, kind) \in c.objects,
                {o \in c.objects : ~(o.name = conf /\ o.namespace = namespace)}, "")

_service_details_test(c, check_service_details, conf, namespace, kind) ==
    IF check_service_details THEN Check(c, "service_details", conf, namespace, kind) ELSE c

\* the statements of the try block of _istio_config_test
istio_config_test_body(c, t, namespace) ==
    Check(
      _ui_istio_config_delete(
        _service_details_test(
          Check(
            Check(_istio_config_create(c, t.conf, t.kind, namespace),
                  "assert_all_items", t.conf, namespace, t.kind),
            "istio_config_details", t.conf, namespace, t.kind),
          t.check_service_details, t.conf, namespace, t.kind),
        t.conf, namespace, t.kind),
      "assert_all_items", t.conf, namespace, t.kind)

\* a finally clause: the statement runs whether or not an exception is
\* pending, and the pending exception is raised again after it
Finally(body, done) == IF body.err # "" /\ done.err = "" THEN [done EXCEPT !.err = body.err]
                       ELSE done

Resumed(c) == [c EXCEPT !.err = ""]

\* the object is deleted only when the try block raised nothing
_istio_config_test_no_finally(c, t, namespace) ==
    IF c.err # "" THEN c ELSE
    _istio_config_delete(
        istio_config_test_body(c, t, IF namespace = "" THEN BOOKINFO_1 ELSE namespace),
        t.conf, t.kind, IF namespace = "" THEN BOOKINFO_1 ELSE namespace)

_istio_config_test(c, t, namespace) ==
    IF c.err # "" THEN c ELSE
    Finally(istio_config_test_body(c, t, IF namespace = "" THEN BOOKINFO_1 ELSE namespace),
            _istio_config_delete(
                Resumed(istio_config_test_body(
                            c, t, IF namespace = "" THEN BOOKINFO_1 ELSE namespace)),
                t.conf, t.kind, IF namespace = "" THEN BOOKINFO_1 ELSE namespace))

_create_dest_rule_vs(c, destination_rule_conf, namespace) ==
    _istio_config_create(c, destination_rule_conf, "DestinationRule", namespace)

_delete_dest_rule_vs(c, destination_rule_conf, namespace) ==
    _istio_config_delete(c, destination_rule_conf, "DestinationRule", namespace)

\* the tests that call _create_dest_rule_vs: the helper, the test, the
\* deletion of the helper, one statement after the other
test_with_dest_rule(c, t, namespace) ==
    _delete_dest_rule_vs(
        _istio_config_test(_create_dest_rule_vs(c, t.helper.conf, t.helper.namespace),
                           t, namespace),
        t.helper.conf, t.helper.namespace)

\* the role binding tests: the ServiceRole, then the test in a try block whose
\* finally clause deletes the ServiceRole
test_with_service_role(c, t, namespace) ==
    IF _istio_config_create(c, t.helper.conf, t.helper.kind, t.helper.namespace).err # ""
    THEN _istio_config_create(c, t.helper.conf, t.helper.kind, t.helper.namespace)
    ELSE Finally(
             _istio_config_test(
                 _istio_config_create(c, t.helper.conf, t.helper.kind, t.helper.namespace),
                 t, namespace),
             _istio_config_delete(
                 Resumed(_istio_config_test(
                             _istio_config_create(c, t.helper.conf, t.helper.kind,
                                                  t.helper.namespace),
                             t, namespace)),
                 t.helper.conf, t.helper.kind, t.helper.namespace))

\* one test function
test_function(c, t, namespace) ==
    IF t.helper.kind = "DestinationRule" THEN test_with_dest_rule(c, t, namespace)
    ELSE IF t.helper.kind = "ServiceRole" THEN test_with_service_role(c, t, namespace)
    ELSE _istio_config_test(c, t, namespace)

\* the objects a test can find in the cluster when it starts: leftovers of
\* its own object and of its helper
Leftovers(t) ==
    SUBSET ({IstioObject(t.conf, ns, t.kind) : ns \in TestNamespaces(t)}
            \cup (IF t.helper.kind = "none" THEN {}
                  ELSE {IstioObject(t.helper.conf, t.helper.namespace, t.helper.kind)}))

Scheduled(test, namespace, fail, objects) ==
    [type |-> "scheduled", test |-> test, namespace |-> namespace, fail |-> fail,
     initial |-> objects]

RunTest ==
    /\ crud.type = "scheduled"
    /\ LET c == test_function(Started(istio_objects, crud.fail), Tests[crud.test],
                              crud.namespace)
       IN  /\ istio_objects' = c.objects
           /\ crud' = [type |-> "done", test |-> crud.test, namespace |-> crud.namespace,
                       fail |-> crud.fail, initial |-> crud.initial,
                       log |-> c.log, err |-> c.err]
    /\ UNCHANGED <<runner, validationVars, workloadVars, configVars,
                   overviewVars, listVars, detailVars, raceVars, appVars, calls, query>>

-----------------------------------------------------------------------------
(* The sequential calls of one query against a backend that changes *)

\* what the backend holds for the object and the service the query is
\* about: the validation document, the istioSidecar of the list entry and the
\* health document
BackendStates == [validation : ValidationDocs, istioSidecar : BOOLEAN, health : HealthDocs]

RacingQueries == {"istio_config_details", "service_list"}

\* the first of the two calls of each query
FirstCall == [istio_config_details |-> "validation", service_list |-> "list"]

Racing(q, backend) ==
    [type |-> "racing", query |-> q, pc |-> FirstCall[q], changed |-> FALSE,
     snapshot |-> backend,
     validation |-> PyNone, error_messages |-> <<>>,
     istio_sidecar |-> FALSE, health |-> PyNone]

\* istio_config_details: validation=self.get_istio_config_validation(...)
fetch_validation ==
    /\ race.type = "racing" /\ race.pc = "validation"
    /\ race' = [race EXCEPT !.pc = "messages",
                            !.snapshot = backend_now,
                            !.validation = get_istio_config_validation(backend_now.validation)]
    /\ UNCHANGED <<backend_now, crudVars, appVars, validationVars, workloadVars, configVars,
                   overviewVars, listVars, detailVars, calls, query>>

\* istio_config_details: error_messages=self.get_istio_config_messages(...)
fetch_messages ==
    /\ race.type = "racing" /\ race.pc = "messages"
    /\ race' = [race EXCEPT !.pc = "done",
                            !.error_messages = get_istio_config_messages(backend_now.validation)]
    /\ UNCHANGED <<backend_now, crudVars, appVars, validationVars, workloadVars, configVars,
                   overviewVars, listVars, detailVars, calls, query>>

\* service_list: _data = self.get_response('serviceList', ...)
fetch_list ==
    /\ race.type = "racing" /\ race.pc = "list"
    /\ race' = [race EXCEPT !.pc = "health",
                            !.snapshot = backend_now,
                            !.istio_sidecar = backend_now.istioSidecar]
    /\ UNCHANGED <<backend_now, crudVars, appVars, validationVars, workloadVars, configVars,
                   overviewVars, listVars, detailVars, calls, query>>

\* service_list: health=self.get_service_health(...)
fetch_health ==
    /\ race.type = "racing" /\ race.pc = "health"
    /\ race' = [race EXCEPT !.pc = "done",
                            !.health = IF Truthy(backend_now.health)
                                       THEN is_healthy(backend_now.health) ELSE PyNone]
    /\ UNCHANGED <<backend_now, crudVars, appVars, validationVars, workloadVars, configVars,
                   overviewVars, listVars, detailVars, calls, query>>

\* the backend changes between the two calls: what the second call reads is
\* replaced
backend_changes ==
    /\ race.type = "racing" /\ race.pc \in {"messages", "health"} /\ ~race.changed
    /\ \E b \in BackendStates :
          /\ b # backend_now
          /\ b.istioSidecar = backend_now.istioSidecar
          /\ IF race.pc = "messages" THEN b.health = backend_now.health
                                     ELSE b.validation = backend_now.validation
          /\ backend_now' = b
    /\ race' = [race EXCEPT !.changed = TRUE]
    /\ UNCHANGED <<crudVars, appVars, validationVars, workloadVars, configVars,
                   overviewVars, listVars, detailVars, calls, query>>

-----------------------------------------------------------------------------
(* Specifications: one per query, the backend documents drawn in Init *)

IdleValidation == health_data = NoneVal /\ validation = "unset"
IdleWorkload == workload_data = NoneVal /\ workload_listing = <<>> /\ workload = Unset
IdleCluster ==
    /\ os_namespaces = <<>>
    /\ os_config_names = <<>>
    /\ os_config_list = Unset
IdleConfig ==
    /\ config_data = <<>>
    /\ filters = <<>>
    /\ config_list = Unset
    /\ IdleCluster
IdleOverview ==
    /\ ov_self = [class |-> "Service"]
    /\ ov_other = [class |-> "Service"]
    /\ ov_equal = NotCompared

IdleLists ==
    /\ listings = [ns \in Namespaces |-> ArraySection(<<>>)]
    /\ healths = [n \in ItemNames |-> EmptyDict]
    /\ fail_at = 0
    /\ ns_scope = <<>>
    /\ name_filter = <<>>
    /\ list_result = Unset
    /\ ov_locals = NoLocals
IdleDetails == detail_data = NoneVal /\ details = Unset
IdleRunner == runner = [g \in Groups |-> NotRunning]
IdleCrud == IdleRunner /\ istio_objects = {} /\ crud = Unset
IdleRace == backend_now = NoneVal /\ race = Unset
IdleApps == os_workloads = <<>> /\ os_applications = Unset
IdleLater == IdleCrud /\ IdleRace /\ IdleApps
IdleCalls == calls = <<>> /\ query = "" /\ IdleDetails /\ IdleLater

InitValidation ==
    /\ health_data \in ValidationDocs
    /\ validation = "unset"
    /\ IdleWorkload /\ IdleConfig /\ IdleOverview /\ IdleLists /\ IdleCalls

NextValidation == GetIstioConfigValidation

SpecValidation == InitValidation /\ [][NextValidation]_vars

InitWorkload ==
    /\ workload_data \in WorkloadDocs
    /\ workload_listing \in WorkloadListings
    /\ workload = Unset
    /\ IdleValidation /\ IdleConfig /\ IdleOverview /\ IdleLists /\ IdleCalls

NextWorkload == workload_details

SpecWorkload == InitWorkload /\ [][NextWorkload]_vars

InitConfig ==
    /\ config_data \in Backends
    /\ filters \in SeqsUpTo(Filters, MaxFilters)
    /\ config_list = Unset
    /\ IdleCluster
    /\ IdleValidation /\ IdleWorkload /\ IdleOverview /\ IdleLists /\ IdleCalls

NextConfig == istio_config_list

SpecConfig == InitConfig /\ [][NextConfig]_vars

InitLists ==
    /\ listings \in Listings
    /\ healths \in HealthAssignments
    /\ fail_at \in 0..MaxFailAt
    /\ ns_scope \in NamespaceScopes
    /\ name_filter \in NameFilters
    /\ list_result = Unset
    /\ ov_locals = NoLocals
    /\ IdleCalls
    /\ IdleValidation /\ IdleWorkload /\ IdleConfig /\ IdleOverview

NextLists == service_list \/ application_list \/ workload_list \/ overview_list

SpecLists == InitLists /\ [][NextLists]_vars

\* both clients reading one backend
InitCluster ==
    /\ config_data \in Backends
    /\ filters \in {<<>>} \cup {<<f>> : f \in Filters}
    /\ config_list = Unset
    /\ os_namespaces \in OsNamespaces
    /\ os_config_names \in OsConfigNames
    /\ os_config_list = Unset
    /\ IdleValidation /\ IdleWorkload /\ IdleOverview /\ IdleLists /\ IdleCalls

NextCluster == istio_config_list \/ openshift_istio_config_list

SpecCluster == InitCluster /\ [][NextCluster]_vars

DetailListings ==
    {l \in Listings : l["istio-system"] = ArraySection(<<>>)}

DetailHealths ==
    {h \in HealthAssignments :
        /\ h[<<"d">>] = EmptyDict
        /\ h[<<"r", "1", "0">>] = HealthDoc(HealthType.HEALTHY)
        /\ h[<<"r", "1">>] \in {EmptyDict, HealthDoc(HealthType.FAILURE)}}

\* the documents of one details query vary while the other's are fixed
InitDetails ==
    /\ \/ /\ detail_data \in ServiceDocs \cup ApplicationDocs \cup ConfigDocs
          /\ listings \in DetailListings
          /\ healths \in DetailHealths
          /\ workload_data = NoneVal
          /\ workload_listing = <<>>
       \/ /\ detail_data = NoneVal
          /\ listings = [ns \in Namespaces |-> ArraySection(<<>>)]
          /\ healths = [n \in ItemNames |-> EmptyDict]
          /\ workload_data \in {NoneVal, EmptyDict}
                               \cup {d \in WorkloadDocs : Truthy(d) /\ d.pods = <<>>}
          /\ workload_listing \in WorkloadListings
    /\ details = Unset
    /\ fail_at = 0
    /\ ns_scope = <<>>
    /\ name_filter = <<>>
    /\ list_result = Unset
    /\ ov_locals = NoLocals
    /\ workload = Unset
    /\ calls = <<>> /\ query = ""
    /\ IdleValidation /\ IdleConfig /\ IdleOverview /\ IdleLater

NextDetails ==
    service_details \/ application_details \/ istio_config_details \/ workload_details

SpecDetails == InitDetails /\ [][NextDetails]_vars

\* the groups of tests run in parallel, one test at a time in each
InitGroups ==
    /\ IdleRunner
    /\ istio_objects = {} /\ crud = Unset
    /\ IdleRace /\ IdleApps
    /\ calls = <<>> /\ query = "" /\ IdleDetails
    /\ IdleValidation /\ IdleWorkload /\ IdleConfig /\ IdleOverview /\ IdleLists

NextGroups == StartTest \/ FinishTest

SpecGroups == InitGroups /\ [][NextGroups]_vars

\* the workloads of the cluster
InitApps ==
    /\ os_workloads \in SeqsUpTo(OsWorkloads, MaxWorkloads)
    /\ os_applications = Unset
    /\ IdleCrud /\ IdleRace
    /\ calls = <<>> /\ query = "" /\ IdleDetails
    /\ IdleValidation /\ IdleWorkload /\ IdleConfig /\ IdleOverview /\ IdleLists

NextApps == openshift_application_list

SpecApps == InitApps /\ [][NextApps]_vars

\* a query about to issue its two calls; the part of the backend that the
\* query does not read is fixed
InitRace ==
    /\ \E q \in RacingQueries, b \in BackendStates :
          /\ IF q = "istio_config_details" THEN b.health = EmptyDict /\ ~b.istioSidecar
                                           ELSE b.validation = NoneVal
          /\ backend_now = b
          /\ race = Racing(q, b)
    /\ IdleCrud /\ IdleApps
    /\ calls = <<>> /\ query = "" /\ IdleDetails
    /\ IdleValidation /\ IdleWorkload /\ IdleConfig /\ IdleOverview /\ IdleLists

NextRace == fetch_validation \/ fetch_messages \/ fetch_list \/ fetch_health \/ backend_changes

SpecRace == InitRace /\ [][NextRace]_vars

\* one test of the module, in a cluster that may hold leftovers, with any
\* one of its steps raising or none
InitCrud ==
    /\ IdleRunner
    /\ \E i \in 1..Len(Tests) :
          \E ns \in TestNamespaces(Tests[i]), objects \in Leftovers(Tests[i]),
             fail \in 0..MaxFailStep :
              /\ istio_objects = objects
              /\ crud = Scheduled(i, ns, fail, objects)
    /\ IdleRace /\ IdleApps
    /\ calls = <<>> /\ query = "" /\ IdleDetails
    /\ IdleValidation /\ IdleWorkload /\ IdleConfig /\ IdleOverview /\ IdleLists

NextCrud == RunTest

SpecCrud == InitCrud /\ [][NextCrud]_vars

InitOverview ==
    /\ ov_self \in Overviews
    /\ ov_other \in Overviews \cup OtherObjects
    /\ ov_equal = NotCompared
    /\ IdleValidation /\ IdleWorkload /\ IdleConfig /\ IdleLists /\ IdleCalls

NextOverview == IsEqual

SpecOverview == InitOverview /\ [][NextOverview]_vars

-----------------------------------------------------------------------------
(* Validation verdict *)

Validated == validation # "unset"

HasChecks == Truthy(health_data) /\ Len(health_data.checks) > 0

HasError == \E i \in 1..Len(health_data.checks) : health_data.checks[i].severity = "error"

\* C1: whenever the checks array is non-empty and holds at least one check of
\* severity 'error', the verdict is NOT_VALID, whatever the other checks are.
C1_ErrorGivesNotValid ==
    (Validated /\ HasChecks /\ HasError) => validation = "Not Valid"

\* an error that follows a warning in a mixed array
C1_Witness ==
    /\ Validated /\ HasChecks
    /\ Len(health_data.checks) >= 2
    /\ health_data.checks[1].severity = "warning"
    /\ HasError
    /\ validation = "Not Valid"

\* C2 as stated: an empty checks array, like an absent document, gives NA.
C2_EmptyChecksGiveNA ==
    (Validated /\ ~HasChecks) => validation = "N/A"

\* C2 amended: an absent (or empty) validation document gives NA; a present
\* document whose checks array is empty gives VALID.
C2_EmptyChecksGiveValid ==
    /\ (Validated /\ ~Truthy(health_data)) => validation = "N/A"
    /\ (Validated /\ Truthy(health_data) /\ ~HasChecks) => validation = "Valid"

C2_Witness ==
    /\ Validated /\ Truthy(health_data)
    /\ health_data.checks = <<>>
    /\ validation = "Valid"

\* C3: a non-empty checks array without any check of severity 'error' gives
\* WARNING.
C3_NoErrorGivesWarning ==
    (Validated /\ HasChecks /\ ~HasError) => validation = "Warning"

C3_Witness ==
    /\ Validated /\ HasChecks /\ ~HasError
    /\ Len(health_data.checks) = 1
    /\ validation = "Warning"

-----------------------------------------------------------------------------
(* Pod grouping *)

Grouped == workload.type = "WorkloadDetails"

InputPods == all_pods(workload_data)

\* positions at which a maximal run of equal created_by starts
RunStarts ==
    {i \in 1..Len(InputPods) :
        i = 1 \/ InputPods[i].created_by # InputPods[i - 1].created_by}

RunStart(k) == CHOOSE i \in RunStarts : Cardinality({j \in RunStarts : j <= i}) = k

RunEnd(k) ==
    IF k = Cardinality(RunStarts) THEN Len(InputPods) ELSE RunStart(k + 1) - 1

RunSize(k) == RunEnd(k) - RunStart(k) + 1

EndsWith(s, suffix) ==
    Len(s) >= Len(suffix) /\ SubSeq(s, Len(s) - Len(suffix) + 1, Len(s)) = suffix

LastIndexOf(s, c) ==
    LET at == {i \in 1..Len(s) : s[i] = c}
    IN  CHOOSE i \in at : \A j \in at : j <= i

DigitValue(c) == (CHOOSE d \in 1..10 : Digits[d] = c) - 1

RECURSIVE StrToInt(_)
StrToInt(s) ==
    IF s = <<>> THEN 0
    ELSE 10 * StrToInt(SubSeq(s, 1, Len(s) - 1)) + DigitValue(s[Len(s)])

\* the replica count a row's name announces
ReplicaCount(name) ==
    IF EndsWith(name, ReplicaSuffix) THEN 1
    ELSE StrToInt(SubSeq(name, LastIndexOf(name, "(") + 1,
                         Len(name) - Len(ReplicasSuffix)))

RECURSIVE SumReplicas(_)
SumReplicas(rows) ==
    IF rows = <<>> THEN 0 ELSE ReplicaCount(rows[1].name) + SumReplicas(Tail(rows))

\* C5: one row per maximal run of adjacent pods with equal created_by, in the
\* order of the runs, each announcing the size of its run; runs of one
\* created_by that are not adjacent stay separate rows.
C5_OneRowPerRun ==
    Grouped =>
        /\ Len(workload.pods) = Cardinality(RunStarts)
        /\ \A k \in 1..Len(workload.pods) :
              /\ workload.pods[k].created_by = InputPods[RunStart(k)].created_by
              /\ ReplicaCount(workload.pods[k].name) = RunSize(k)

\* the sequence [A,A,A,B,B]
C5_Witness ==
    /\ Grouped
    /\ Len(InputPods) = 5
    /\ RunStarts = {1, 4}
    /\ Len(workload.pods) = 2
    /\ ReplicaCount(workload.pods[1].name) = 3
    /\ ReplicaCount(workload.pods[2].name) = 2

\* C6: the row of a group of more than one pod has created_at
\* '<created_at of the group's first pod> and <created_at of its last pod>'.
C6_CreatedAtSpansGroup ==
    Grouped =>
        \A k \in 1..Len(workload.pods) :
            RunSize(k) > 1 =>
                workload.pods[k].created_at =
                    InputPods[RunStart(k)].created_at \o AndWord
                    \o InputPods[RunEnd(k)].created_at

\* C7: the row of a group of N > 1 pods is named after a pod of that group:
\* its name without the last 5 characters, then '... (N replicas)'.
C7_NameFromOwnGroup ==
    Grouped =>
        \A k \in 1..Len(workload.pods) :
            RunSize(k) > 1 =>
                \E i \in RunStart(k)..RunEnd(k) :
                    workload.pods[k].name =
                        DropLast(InputPods[i].name, 5) \o Ellipsis
                        \o IntToStr(RunSize(k)) \o ReplicasSuffix

\* C8: the row of a group of exactly one pod is named '<pod name> (1 replica)'
\* and carries that pod's created_at, created_by, labels,
\* istio_init_containers, istio_containers, status and phase.
C8_SinglePodRow ==
    Grouped =>
        \A k \in 1..Len(workload.pods) :
            RunSize(k) = 1 =>
                LET row == workload.pods[k]
                    pod == InputPods[RunStart(k)]
                IN  /\ row.name = pod.name \o ReplicaSuffix
                    /\ row.created_at = pod.created_at
                    /\ row.created_by = pod.created_by
                    /\ row.labels = pod.labels
                    /\ row.istio_init_containers = pod.istio_init_containers
                    /\ row.istio_containers = pod.istio_containers
                    /\ row.status = pod.status
                    /\ row.phase = pod.phase

\* a single pod that follows a group of two pods of another kind
C8_Witness ==
    /\ Grouped
    /\ Len(InputPods) = 3
    /\ RunStarts = {1, 3}
    /\ InputPods[3].phase # InputPods[1].phase
    /\ workload.pods[2].name = InputPods[3].name \o ReplicaSuffix

\* C9: there are at most as many rows as pods, the replica counts of the rows
\* sum to the number of pods, and pods_number is the number of rows.
C9_EveryPodCounted ==
    Grouped =>
        /\ Len(workload.pods) <= Len(InputPods)
        /\ SumReplicas(workload.pods) = Len(InputPods)
        /\ workload.pods_number = Len(workload.pods)

C9_Witness ==
    /\ Grouped
    /\ Len(workload.pods) >= 2
    /\ Len(workload.pods) < Len(InputPods)
    /\ workload.pods_number = Len(workload.pods)

-----------------------------------------------------------------------------
(* Istio config filters *)

Listed == config_list # Unset

FilterValuesOf(kind) == {filters[i].value : i \in {j \in 1..Len(filters) : filters[j].name = kind}}

TypeValues == FilterValuesOf(IstioConfigPageFilter.ISTIO_TYPE)
NameValues == FilterValuesOf(IstioConfigPageFilter.ISTIO_NAME)

Candidates == Range(config_items(config_data, namespace_list))

\* C4: with both 'Istio Type' and 'Istio Name' filters, the result is exactly
\* the candidate items whose object_type contains one of the type values and
\* whose name contains one of the name values.
C4_TypeAndNameFilters ==
    (Listed /\ TypeValues # {} /\ NameValues # {}) =>
        /\ config_list.type = "set"
        /\ config_list.items =
              {it \in Candidates :
                  /\ \E t \in TypeValues : Contains(it.object_type, t)
                  /\ \E n \in NameValues : Contains(it.name, n)}

-----------------------------------------------------------------------------
(* List queries and the overview *)

ListQueries == {"service_list", "application_list", "workload_list"}

QueryKind ==
    [service_list |-> "service", application_list |-> "application",
     workload_list |-> "workload"]

\* no upstream call of the query failed
NoFailure == fail_at = 0 \/ fail_at > Len(calls)

\* the namespaces the query has to visit
Visited == IF Len(ns_scope) > 0 THEN ns_scope ELSE namespace_list

NoNullSection == \A i \in 1..Len(Visited) : ~listings[Visited[i]].null

HealthOf(name) == IF Truthy(healths[name]) THEN healths[name].status ELSE PyNone

RECURSIVE Discovered(_, _)
Discovered(kind, nss) ==
    IF nss = <<>> THEN <<>>
    ELSE LET raw == listings[Head(nss)].items
         IN  [i \in 1..Len(raw) |->
                 Entity(kind, Head(nss), raw[i], HealthOf(raw[i].name))]
             \o Discovered(kind, Tail(nss))

Recognized == {HealthType[m] : m \in DOMAIN HealthType}

Counted == query = "overview_list" /\ ov_locals.counted

\* C11: the pass over a namespace's items increments exactly one of the four
\* counters per item, so healthy + unhealthy + degraded + na is the item count.
C11_CountersSumToItems ==
    Counted =>
        ov_locals.healthy + ov_locals.unhealthy + ov_locals.degraded + ov_locals.na
            = Len(ov_locals.items)

\* C12: an item whose health is not a recognized value (health None of an
\* empty health document) increments the NA counter.
C12_UnrecognizedCountsAsNA ==
    Counted =>
        ov_locals.na =
            Cardinality({i \in 1..Len(ov_locals.items) :
                            ov_locals.items[i].health
                                \notin {HealthType.HEALTHY, HealthType.DEGRADED,
                                        HealthType.FAILURE}})

\* C13: overview_list returns one Overview per namespace in scope, in scope
\* order, carrying type, namespace, item count and the health counts.
C13_OneOverviewPerNamespace ==
    (query = "overview_list" /\ NoFailure /\ NoNullSection) =>
        /\ list_result.type = "list"
        /\ Len(list_result.items) = Len(Visited)
        /\ \A k \in 1..Len(Visited) :
              /\ list_result.items[k].class = "Overview"
              /\ list_result.items[k].namespace = Visited[k]
              /\ list_result.items[k].items = Len(listings[Visited[k]].items)

\* C16: when the listing of every namespace in scope is empty (an empty array
\* or a null section) the list query returns an empty collection, not an error.
C16_EmptyListingGivesEmpty ==
    (/\ query \in ListQueries
     /\ NoFailure
     /\ \A i \in 1..Len(Visited) : listings[Visited[i]].items = <<>>) =>
        /\ list_result.type \in {"list", "set"}
        /\ IF list_result.type = "list"
           THEN list_result.items = <<>>
           ELSE list_result.items = {}

\* C17: with a name filter the list query returns exactly the discovered
\* items whose name contains one of the filter strings, each once; without
\* one it returns all discovered items in discovery order.
C17_NameFilter ==
    (query \in ListQueries /\ list_result.type # "raise") =>
        LET found == Discovered(QueryKind[query], Visited)
        IN  IF Len(name_filter) > 0
            THEN /\ list_result.type = "set"
                 /\ list_result.items =
                       {found[i] : i \in {j \in 1..Len(found) :
                           \E k \in 1..Len(name_filter) :
                               Contains(found[j].name, name_filter[k])}}
            ELSE /\ list_result.type = "list"
                 /\ list_result.items = found

\* an item whose name contains both filter strings, and one that contains
\* a filter string without being equal to it
C17_Witness ==
    /\ query \in ListQueries
    /\ list_result.type = "set"
    /\ Len(name_filter) = 2
    /\ \E it \in list_result.items :
          \A k \in 1..Len(name_filter) : Contains(it.name, name_filter[k])
    /\ \E it \in list_result.items :
          \A k \in 1..Len(name_filter) : it.name # name_filter[k]

\* C19: when an upstream call of a list query or of overview_list fails, the
\* failure is raised to the caller as it is, no collection is returned, and
\* no call follows the failed one.
C19_FailurePropagates ==
    (query \in ListQueries \cup {"overview_list"} /\ fail_at \in 1..Len(calls)) =>
        /\ list_result = Raise("ConnectionError")
        /\ Len(calls) = fail_at

\* a health call that fails after an entity has been built
C19_Witness ==
    /\ query \in ListQueries
    /\ fail_at \in 1..Len(calls)
    /\ calls[fail_at][1] \in {HealthMethod[k] : k \in DOMAIN HealthMethod}
    /\ \E i \in 1..(fail_at - 1) :
          calls[i][1] \in {HealthMethod[k] : k \in DOMAIN HealthMethod}
    /\ list_result = Raise("ConnectionError")

\* C20: a health value that is none of the four HealthType values stops the
\* pass with an error; the pass never completes with such an item left out
\* of the buckets or put in a default one.
C20_UnrecognizedIsError ==
    Counted =>
        \A i \in 1..Len(ov_locals.items) : ov_locals.items[i].health \in Recognized

\* the calls of a query that fetch a listing, and those that fetch a health
ListCalls == SelectSeq(calls, LAMBDA c : c[1] \in {ListMethod[k] : k \in DOMAIN ListMethod})
HealthCalls ==
    SelectSeq(calls, LAMBDA c : c[1] \in {HealthMethod[k] : k \in DOMAIN HealthMethod})
NamespaceCalls == SelectSeq(calls, LAMBDA c : c[1] = "namespaceList")

\* C21: the list a list query returns without a name filter holds no two
\* entities of the same namespace and name, whatever scope was passed, the
\* names of every upstream listing being unique.
C21_UniqueIdentity ==
    (query \in ListQueries /\ list_result.type = "list") =>
        \A i, j \in 1..Len(list_result.items) :
            (/\ list_result.items[i].namespace = list_result.items[j].namespace
             /\ list_result.items[i].name = list_result.items[j].name) => i = j

\* C22: when no upstream call fails, a list query or overview_list fetches
\* the listing of exactly the namespaces in scope, each in its turn; it
\* calls namespace_list once, first, when the scope is empty, and never when
\* it is not.
C22_ScopeQueried ==
    (query \in ListQueries \cup {"overview_list"} /\ NoFailure) =>
        /\ [i \in 1..Len(ListCalls) |-> ListCalls[i][2]] = Visited
        /\ Len(NamespaceCalls) = (IF ns_scope = <<>> THEN 1 ELSE 0)
        /\ ns_scope = <<>> => calls[1] = <<"namespaceList">>

\* the list the caller passed as the scope is the same after every query
C22_ScopeUnchanged == [][ns_scope' = ns_scope]_vars

\* the calls a completed list query is to have issued for the namespaces nss
RECURSIVE ExpectedCalls(_, _)
ExpectedCalls(kind, nss) ==
    IF nss = <<>> THEN <<>>
    ELSE LET raw == listings[Head(nss)].items
         IN  <<<<ListMethod[kind], Head(nss)>>>>
             \o [i \in 1..Len(raw) |-> <<HealthMethod[kind], Head(nss), raw[i].name>>]
             \o ExpectedCalls(kind, Tail(nss))

\* C26: a list query that returns has issued, for every namespace in scope in
\* turn, the list call and then one health call per raw item in listing
\* order and nothing else, with or without a name filter: the health calls
\* are as many as the raw items.
C26_CallsPerItem ==
    (query \in ListQueries /\ list_result.type # "raise") =>
        /\ calls = (IF ns_scope = <<>> THEN <<<<"namespaceList">>>> ELSE <<>>)
                   \o ExpectedCalls(QueryKind[query], Visited)
        /\ Len(HealthCalls) = Len(Discovered(QueryKind[query], Visited))

\* a query with a name filter that left out an item whose health it fetched,
\* over two namespaces
C26_Witness ==
    /\ query \in ListQueries
    /\ list_result.type = "set"
    /\ Len(ListCalls) = 2
    /\ Len(HealthCalls) = 3
    /\ Cardinality(list_result.items) < Len(HealthCalls)

-----------------------------------------------------------------------------------------------------------------------------------------------------
(* Adapters and templates in both clients *)

AdapterPrefix == <<"A", "d", "a", "p", "t", "e", "r", ":", " ">>
TemplatePrefix == <<"T", "e", "m", "p", "l", "a", "t", "e", ":", " ">>
Prometheus == <<"p", "r", "o", "m", "e", "t", "h", "e", "u", "s">>

\* the entries of the two categories the backend holds
Categorized == {i \in 1..Len(config_data) :
                   config_data[i].section \in {"adapters", "templates"}}

\* the Rule an entry is to become, its sub-kind read from the named field
ExpectedRule(o, sub_kind) ==
    [class |-> "Rule", name |-> o.metadata.name, namespace |-> o.namespace,
     object_type |-> (IF o.section = "adapters" THEN AdapterPrefix ELSE TemplatePrefix)
                     \o sub_kind]

\* the Rules of a result that stand for adapters and templates
CategoryRules(items) ==
    {it \in Range(items) : it.class = "Rule" /\ it.object_type # IstioConfigObjectType.RULE}

\* the entries the cluster client's arguments select
OsSelected ==
    {i \in Categorized :
        /\ os_namespaces = <<>> \/ config_data[i].namespace \in Range(os_namespaces)
        /\ os_config_names = <<>>
           \/ \E n \in Range(os_config_names) : Contains(config_data[i].metadata.name, n)}

\* C14: in a list the REST client returns, and in a list the cluster client
\* returns, the Rules that stand for adapters and templates are exactly the
\* entries of the two categories (those the arguments select), each with the
\* object_type 'Adapter: <sub-kind>' or 'Template: <sub-kind>': the category
\* text, a colon, one space, the sub-kind.
C14_CategoryObjectType ==
    /\ config_list.type = "list" =>
          CategoryRules(config_list.items) =
              {ExpectedRule(config_data[i],
                            IF config_data[i].section = "adapters"
                            THEN config_data[i].adapter ELSE config_data[i].template) :
                  i \in Categorized}
    /\ os_config_list.type = "list" =>
          CategoryRules(os_config_list.items) =
              {ExpectedRule(config_data[i], config_data[i].kind) : i \in OsSelected}

\* both clients have listed a backend that holds the prometheus adapter and a
\* template, and both returned 'Adapter: prometheus'
C14_Witness ==
    /\ config_list.type = "list"
    /\ os_config_list.type = "list"
    /\ \E i, j \in Categorized :
          /\ config_data[i].section = "adapters" /\ config_data[i].adapter = Prometheus
          /\ config_data[j].section = "templates"
          /\ j \in OsSelected
    /\ \E it \in Range(config_list.items) :
          it.object_type = <<"A", "d", "a", "p", "t", "e", "r", ":", " ",
                             "p", "r", "o", "m", "e", "t", "h", "e", "u", "s">>
    /\ \E it \in Range(os_config_list.items) :
          it.object_type = <<"A", "d", "a", "p", "t", "e", "r", ":", " ",
                             "p", "r", "o", "m", "e", "t", "h", "e", "u", "s">>

-----------------------------------------------------------------------------
(* Details queries *)

Returned(class) == "class" \in DOMAIN details /\ details.class = class

\* the virtual services of the detail document, none when the section is null
DocVirtualServices ==
    IF detail_data.virtualServices = NoneVal THEN <<>>
    ELSE detail_data.virtualServices.items

\* the weight, subset, port and status a route is to give
RouteGives(route, w) ==
    /\ w.host = route.destination.host
    /\ w.weight = (IF "weight" \in DOMAIN route
                   THEN (IF route.weight = 0 THEN <<>> ELSE <<route.weight>>)
                   ELSE <<>>)
    /\ ("subset" \in DOMAIN route.destination => w.subset = <<route.destination.subset>>)
    /\ ("subset" \notin DOMAIN route.destination => w.subset = <<>>)
    /\ ("port" \in DOMAIN route.destination => w.port = <<route.destination.port.number>>)
    /\ ("port" \notin DOMAIN route.destination => w.port = <<>>)
    /\ ("status" \in DOMAIN route.destination => w.status = <<route.destination.status>>)
    /\ ("status" \notin DOMAIN route.destination => w.status = <<>>)

\* C15: in the ServiceDetails that service_details returns, every virtual
\* service has one VirtualServiceWeight per route, in route order; its
\* weight is None when the route has no weight or the weight 0 and the
\* route's weight otherwise, and its subset, port and status are None when
\* the destination lacks the sub-field.
C15_RouteWeights ==
    Returned("ServiceDetails") =>
        /\ Len(details.virtual_services) = Len(DocVirtualServices)
        /\ \A k \in 1..Len(DocVirtualServices) :
              LET routes == DocVirtualServices[k].spec.http[1].route
                  ws == details.virtual_services[k].weights
              IN  /\ Len(ws) = Len(routes)
                  /\ \A i \in 1..Len(routes) : RouteGives(routes[i], ws[i])

\* service_details has returned a virtual service of two routes: one of
\* weight 0 that became None, one of weight 50 that kept it and that has no
\* port
C15_Witness ==
    /\ Returned("ServiceDetails")
    /\ Len(DocVirtualServices) = 1
    /\ LET routes == DocVirtualServices[1].spec.http[1].route
           ws == details.virtual_services[1].weights
       IN  /\ Len(routes) = 2 /\ Len(ws) = 2
           /\ "weight" \in DOMAIN routes[1] /\ routes[1].weight = 0 /\ ws[1].weight = <<>>
           /\ "weight" \in DOMAIN routes[2] /\ ws[2].weight = <<50>>
           /\ "port" \notin DOMAIN routes[2].destination /\ ws[2].port = <<>>
           /\ ws[1].subset = <<"v2">>

\* C18: a details query served an empty or absent detail document returns
\* None, raises nothing and issues no upstream call but the one that fetched
\* the document.
C18_EmptyDocumentGivesNone ==
    /\ (query = "service_details" /\ ~Truthy(detail_data)) =>
           details = NoneVal /\ calls = <<<<"serviceDetails", DetailNamespace, DetailName>>>>
    /\ (query = "application_details" /\ ~Truthy(detail_data)) =>
           details = NoneVal /\ calls = <<<<"appDetails", DetailNamespace, DetailName>>>>
    /\ (query = "istio_config_details" /\ ~Truthy(detail_data)) =>
           details = NoneVal /\ Len(calls) = 1 /\ calls[1][1] = "istioConfigDetails"
    /\ (query = "workload_details" /\ ~Truthy(workload_data)) =>
           /\ workload = NoneVal
           /\ calls = <<<<"workloadDetails", WorkloadNamespace, WorkloadName>>>>

\* service_details was served the empty document while the namespace lists
\* services, and returned None after the one call
C18_Witness ==
    /\ query = "service_details"
    /\ detail_data = EmptyDict
    /\ listings[DetailNamespace].items # <<>>
    /\ details = NoneVal
    /\ Len(calls) = 1

\* the istioSidecar values of the list entries named exactly name
ExactSidecars(items, name) ==
    {items[i].istioSidecar : i \in {j \in 1..Len(items) : items[j].name = name}}

\* C28: served a non-empty detail document, a details query raises no
\* KeyError, and the istio_sidecar of its result is that of the list entry
\* whose name is the requested name.
C28_ExactEntitySidecar ==
    /\ (query \in {"service_details", "application_details"} /\ Truthy(detail_data)) =>
           IF details.class = "raise" THEN details.error # "KeyError"
           ELSE details.istio_sidecar
                    \in ExactSidecars(listings[DetailNamespace].items, DetailName)
    /\ (query = "workload_details" /\ Truthy(workload_data)) =>
           IF workload.type = "raise" THEN workload.error # "KeyError"
           ELSE workload.istio_sidecar \in ExactSidecars(workload_listing, WorkloadName)

\* the same when the list holds an entity of the requested name and none
\* whose name merely contains it
C28_SingleEntitySidecar ==
    /\ (/\ query \in {"service_details", "application_details"}
        /\ Truthy(detail_data)
        /\ Len(listings[DetailNamespace].items) = 1) =>
           /\ details.class # "raise"
           /\ details.istio_sidecar
                  \in ExactSidecars(listings[DetailNamespace].items, DetailName)
    /\ (query = "workload_details" /\ Truthy(workload_data) /\ Len(workload_listing) = 1) =>
           /\ workload.type # "raise"
           /\ workload.istio_sidecar \in ExactSidecars(workload_listing, WorkloadName)

-----------------------------------------------------------------------------
(* The CRUD tests *)

\* the test in progress in group g
Current(g) == GroupTests(g)[runner[g].done + 1]

\* C23: tests in progress in two different groups never work on the same
\* (namespace, service_name) pair.
C23_GroupsDisjoint ==
    \A g, h \in Groups :
        (g # h /\ runner[g].active /\ runner[h].active) =>
            <<runner[g].namespace, Current(g).service_name>>
                # <<runner[h].namespace, Current(h).service_name>>

\* the test that was run, its object and its helper object
Ran == Tests[crud.test]
TestObject ==
    IstioObject(Ran.conf, IF crud.namespace = "" THEN BOOKINFO_1 ELSE crud.namespace, Ran.kind)
HelperObject == IstioObject(Ran.helper.conf, Ran.helper.namespace, Ran.helper.kind)

\* the operations of the run on the object o, and those named op
OpsOn(o) == {k \in 1..Len(crud.log) : crud.log[k].object = o}
OpsNamed(op, o) == {k \in OpsOn(o) : crud.log[k].op = op}

\* the cluster before the k-th operation of the run
Before(k) == IF k = 1 THEN crud.initial ELSE crud.log[k - 1].objects

\* C24: once _istio_config_test has attempted the creation, the object under
\* test is absent when the test ends and the last operation on it is
\* delete_istio_config, whatever step raised; the object is created through
\* the cluster before the first assert_all_items and deleted through the UI
\* before the second.
C24_ObjectRemoved ==
    (crud.type = "done" /\ OpsOn(TestObject) # {}) =>
        /\ TestObject \notin istio_objects
        /\ \E k \in OpsNamed("delete_istio_config", TestObject) :
               /\ crud.log[k].err = ""
               /\ \A j \in OpsOn(TestObject) : j <= k
               /\ \E i \in OpsNamed("delete_istio_config", TestObject) : i < k
        /\ \A a \in OpsNamed("assert_all_items", TestObject) :
               \E k \in OpsNamed("create_istio_config", TestObject) :
                   k < a /\ crud.log[k].err = "" /\ TestObject \in crud.log[k].objects
        /\ \A a, b \in OpsNamed("assert_all_items", TestObject) :
               a < b => \E k \in OpsNamed("ui_delete", TestObject) :
                           /\ a < k /\ k < b
                           /\ crud.log[k].err = ""
                           /\ TestObject \notin crud.log[k].objects

\* a step after the creation raised, and the object is gone all the same
C24_Witness ==
    /\ crud.type = "done"
    /\ crud.err = "AssertionError"
    /\ \E k \in OpsNamed("create_istio_config", TestObject) :
           crud.log[k].err = "" /\ TestObject \in crud.log[k].objects
    /\ \E k \in OpsNamed("ui_delete", TestObject) : crud.log[k].err = "AssertionError"
    /\ TestObject \notin istio_objects

\* the pairs of operations of _istio_config_create: a delete and the create
\* that follows it
CreatePairs ==
    {k \in 2..Len(crud.log) :
        /\ crud.log[k].op = "create_istio_config"
        /\ crud.log[k - 1].op = "delete_istio_config"
        /\ crud.log[k - 1].object = crud.log[k].object}

SameName(o, objects) ==
    {x \in objects : x.name = o.name /\ x.namespace = o.namespace /\ x.kind = o.kind}

\* C25: delete_istio_config raises nothing and removes just its object, so
\* it changes nothing when the object is absent; the create of
\* _istio_config_create never finds an object of the same name and, when it
\* succeeds, leaves exactly one.
C25_DeleteIdempotent ==
    crud.type = "done" =>
        /\ \A k \in 1..Len(crud.log) :
               crud.log[k].op = "delete_istio_config" =>
                   /\ crud.log[k].err = ""
                   /\ crud.log[k].objects = Before(k) \ {crud.log[k].object}
                   /\ crud.log[k].existed = (crud.log[k].object \in Before(k))
                   /\ ~crud.log[k].existed => crud.log[k].objects = Before(k)
        /\ \A k \in CreatePairs :
               /\ ~crud.log[k].existed
               /\ crud.log[k].err # "ConflictError"
               /\ crud.log[k].err = "" =>
                     Cardinality(SameName(crud.log[k].object, crud.log[k].objects)) = 1

\* the object was there before the test, was deleted and created, and a
\* later delete found it gone already
C25_Witness ==
    /\ crud.type = "done"
    /\ TestObject \in crud.initial
    /\ \E k \in CreatePairs :
           /\ crud.log[k].object = TestObject
           /\ crud.log[k - 1].existed
           /\ crud.log[k].err = ""
    /\ \E k \in OpsNamed("delete_istio_config", TestObject) :
           ~crud.log[k].existed /\ crud.log[k].objects = Before(k)

\* C30: when a test that creates a helper object ends, passed or failed, the
\* helper object is absent from the cluster.
C30_HelperRemoved ==
    (crud.type = "done" /\ Ran.helper.kind # "none") => HelperObject \notin istio_objects

\* the same for the role binding tests alone, whose deletion of the
\* ServiceRole stands in a finally clause
C30_GuardedHelperRemoved ==
    (crud.type = "done" /\ Ran.helper.guarded) => HelperObject \notin istio_objects

-----
(* The applications of the cluster client *)

\* the (application name, namespace) pairs derived from the workloads
DerivedPairs ==
    {<<application_name(os_workloads[i]), os_workloads[i].namespace>> :
        i \in 1..Len(os_workloads)}

ListedPairs ==
    {<<os_applications.list[i].name, os_applications.list[i].namespace>> :
        i \in 1..Len(os_applications.list)}

\* C29: without a name filter, application_list returns one Application for
\* each distinct (application name, namespace) pair derived from the
\* workloads, and as many Applications as there are distinct pairs.
C29_OnePerPair ==
    os_applications.type = "list" =>
        /\ ListedPairs = DerivedPairs
        /\ Len(os_applications.list) = Cardinality(DerivedPairs)

\* no pair is returned twice, and no pair is returned that no workload gives
C29_NoRepeatedPair ==
    os_applications.type = "list" =>
        /\ ListedPairs \subseteq DerivedPairs
        /\ Len(os_applications.list) = Cardinality(ListedPairs)

-----
(* Queries and a changing backend *)

\* C27: when the backend does not change between the two calls of a query,
\* both values come from one backend state: error_messages is non-empty
\* exactly when validation is WARNING or NOT_VALID, and the health of a
\* listed service is that of the backend the list call saw.
C27_UnchangedBackendConsistent ==
    (race.type = "racing" /\ race.pc = "done" /\ ~race.changed) =>
        IF race.query = "istio_config_details"
        THEN /\ race.error_messages # <<>>
                  <=> race.validation \in {IstioConfigValidation.WARNING,
                                          IstioConfigValidation.NOT_VALID}
             /\ race.validation = get_istio_config_validation(race.snapshot.validation)
             /\ Len(race.error_messages) = Len(IF Truthy(race.snapshot.validation)
                                               THEN race.snapshot.validation.checks
                                               ELSE <<>>)
        ELSE /\ race.istio_sidecar = race.snapshot.istioSidecar
             /\ race.health = IF Truthy(race.snapshot.health)
                               THEN race.snapshot.health.status ELSE PyNone

\* the backend changed between the validation fetch and the messages fetch:
\* the details are VALID and carry error messages
C27_Witness ==
    /\ race.type = "racing" /\ race.pc = "done" /\ race.changed
    /\ race.query = "istio_config_details"
    /\ race.validation = IstioConfigValidation.VALID
    /\ race.error_messages # <<>>

\* the same for service_list: the health is not that of the backend the list
\* call saw
C27_ListWitness ==
    /\ race.type = "racing" /\ race.pc = "done" /\ race.changed
    /\ race.query = "service_list"
    /\ race.health = HealthType.FAILURE
    /\ race.snapshot.health = HealthDoc(HealthType.HEALTHY)

-----
(* Overview equality *)

\* C10: if a.is_equal(b, advanced_check=True) holds then so does
\* a.is_equal(b, advanced_check=False).
C10_BasicCoarsensAdvanced ==
    (ov_equal.done /\ ov_equal.advanced) => ov_equal.basic

C10_Witness ==
    /\ ov_equal.done
    /\ ov_equal.advanced
    /\ ov_equal.basic

\* the converse fails: basic-equal overviews that differ in a health count
C10_ConverseFails ==
    /\ ov_equal.done
    /\ ov_equal.basic
    /\ ~ov_equal.advanced

====
